---------------------------- MODULE Spec2Model ----------------------------
(***************************************************************************)
(* MacNCheese: library discovery, manifest catalog and executable          *)
(* resolution (src/MacNCheese.py, src/MacNdCheese.py).                     *)
(*                                                                         *)
(* Strings are sequences of one-character strings; a Path is what pathlib  *)
(* keeps of a string: a root ("", "/" or "//") and the list of its         *)
(* components, so that two paths are equal exactly when pathlib says so.   *)
(***************************************************************************)
EXTENDS Integers, Sequences, FiniteSets, TLC

VARIABLES
    value,        \* windows_path_to_unix: the declared value handed in
    converted,    \* windows_path_to_unix: the Path returned, or NoPath
    libState,     \* for each library directory: absent, bare, or with steamapps
    vdf,          \* steamapps/libraryfolders.vdf of the primary library
    manifests,    \* for each library directory, its appmanifest files
    called,       \* the scanner call that returned last, "none" before any
    roots,        \* the list library_roots returned
    games,        \* the list scan_games returned
    gameDir,      \* whether the install directory of the title exists
    dirRemoved,   \* whether the install directory was there and was deleted
    tree,         \* what each entry of the install tree is
    exeCall,      \* the variant of detect_exe that returned last, or "none"
    exe,          \* what detect_exe returned
    sources,      \* dxvk_install/bin: the content of each overlay file
    subdirs,      \* the directories made below the install directory
    locked,       \* the directories of the install tree that refuse writes
    overlay,      \* for each directory of the install tree, its overlay files
    patch,        \* what the last call of patch_selected_game did
    logsDir,      \* whether ~/dxvk-logs exists
    logs,         \* for each file name of ~/dxvk-logs, its st_mtime (0: no file)
    launchTs,     \* last_game_launch_ts: launch time by appid
    logFound,     \* what the last call of _latest_dxvk_log_for_game returned
    variant,      \* the program that runs: "MacNCheese" or "MacNdCheese"
    workerThread, \* self.worker_thread: a thread, or 0 for None
    worker,       \* self.worker: the worker of a thread, or 0 for None
    threads,      \* for each QThread the program made, where it is in its life
    mainQueue,    \* the events posted to the UI thread, oldest first
    runResult,    \* how the last call of run_commands ended
    procs,        \* for each QProcess the program made, its kind and state
    steamProcess, \* self.steam_process: a QProcess, or 0 for None
    gameProcess,  \* self.game_process: a QProcess, or 0 for None
    wineLog,      \* last_game_wine_log: log path by appid
    launch,       \* how the last call of launch_steam / launch_selected_game ended
    shutdown,     \* closeEvent: whether it ran, what it signalled, what was live
    run,          \* CommandWorker.run: the commands, how far it got, what it emitted
    launched,     \* for each title process, the title and the executable it was given
    selection,    \* games_list.currentItem(): the title selected, or NoGame
    shown         \* what the last _on_game_finished displayed

varsPath == <<value, converted>>
varsLibFs == <<libState, vdf, manifests>>
varsLibOut == <<called, roots, games>>
varsExe == <<gameDir, dirRemoved, tree, exeCall, exe>>
varsPatch == <<sources, subdirs, locked, overlay, patch>>
varsLog == <<logsDir, logs, launchTs, logFound>>
varsWorker == <<variant, workerThread, worker, threads, mainQueue, runResult>>
varsProc == <<procs, steamProcess, gameProcess, wineLog, launch, shutdown>>
varsEnd == <<run, launched, selection, shown>>
varsApp == <<varsPatch, varsLog, varsWorker, varsProc, varsEnd>>
varsScan == <<value, converted, libState, vdf, manifests, called, roots, games>>
\* all but the install tree and the overlay
varsNotPatch == <<varsScan, varsLog, varsWorker, varsProc, varsEnd>>
\* all but the log directory and the launch times
varsNotLog == <<varsScan, varsExe, varsPatch, varsWorker, varsProc, varsEnd>>
\* all but the threads, the processes and the event queue
varsNotTask == <<varsScan, varsExe, varsPatch, varsLog, varsEnd>>
\* all but the pipeline of CommandWorker.run
varsNotRun == <<varsScan, varsExe, varsPatch, varsLog, varsWorker, varsProc,
                launched, selection, shown>>
vars == <<value, converted, libState, vdf, manifests, called, roots, games,
          gameDir, dirRemoved, tree, exeCall, exe, varsApp>>

NoPath == [root |-> "none", parts |-> <<>>]

-----------------------------------------------------------------------------
(* Characters and strings                                                  *)

BS == "\\"
SL == "/"

UpperSeq == <<"A","B","C","D","E","F","G","H","I","J","K","L","M",
              "N","O","P","Q","R","S","T","U","V","W","X","Y","Z">>
LowerSeq == <<"a","b","c","d","e","f","g","h","i","j","k","l","m",
              "n","o","p","q","r","s","t","u","v","w","x","y","z">>

IsLetter(c) == \E i \in DOMAIN UpperSeq : c = UpperSeq[i] \/ c = LowerSeq[i]

\* str.lower() on one character
LowerChar(c) ==
    IF \E i \in DOMAIN UpperSeq : c = UpperSeq[i]
    THEN LowerSeq[CHOOSE i \in DOMAIN UpperSeq : c = UpperSeq[i]]
    ELSE c

\* str.lower()
Lower(s) == [i \in DOMAIN s |-> LowerChar(s[i])]

\* s[n:] of Python, n counted from 0
DropFirst(s, n) == IF Len(s) <= n THEN <<>> ELSE SubSeq(s, n + 1, Len(s))

\* value.replace('\\\\', '\\'): every pair of backslashes, found left to
\* right without overlap, becomes one backslash
RECURSIVE CollapseDoubled(_)
CollapseDoubled(s) ==
    IF s = <<>> THEN <<>>
    ELSE IF Len(s) >= 2 /\ s[1] = BS /\ s[2] = BS
         THEN <<BS>> \o CollapseDoubled(DropFirst(s, 2))
         ELSE <<s[1]>> \o CollapseDoubled(Tail(s))

\* s.replace('\\', '/')
ToForwardSlashes(s) == [i \in DOMAIN s |-> IF s[i] = BS THEN SL ELSE s[i]]

\* re.match(r'^[A-Za-z]:\\', s)
IsDriveRooted(s) ==
    /\ Len(s) >= 3
    /\ IsLetter(s[1])
    /\ s[2] = ":"
    /\ s[3] = BS

-----------------------------------------------------------------------------
(* pathlib on a POSIX host                                                 *)

RECURSIVE LeadingSlashes(_)
LeadingSlashes(s) ==
    IF s # <<>> /\ s[1] = SL THEN 1 + LeadingSlashes(Tail(s)) ELSE 0

\* the components of s between slashes, "" and "." dropped
RECURSIVE SplitParts(_, _)
SplitParts(s, cur) ==
    LET keep == IF cur = <<>> \/ cur = <<".">> THEN <<>> ELSE <<cur>>
    IN  IF s = <<>> THEN keep
        ELSE IF s[1] = SL THEN keep \o SplitParts(Tail(s), <<>>)
        ELSE SplitParts(Tail(s), Append(cur, s[1]))

\* Path(s): exactly two leading slashes are kept as the root "//", any other
\* number of them is the root "/"
ParsePath(s) ==
    LET n == LeadingSlashes(s)
    IN  [root  |-> IF n = 0 THEN "" ELSE IF n = 2 THEN "//" ELSE "/",
         parts |-> SplitParts(s, <<>>)]

\* base / s: an absolute right operand replaces the left one
JoinPath(base, s) ==
    IF s # <<>> /\ s[1] = SL
    THEN ParsePath(s)
    ELSE [root |-> base.root, parts |-> base.parts \o ParsePath(s).parts]

\* the sandbox root handed to the scanner: /p
Prefix == [root |-> "/", parts |-> << <<"p">> >>]

-----------------------------------------------------------------------------
(* SteamScanner.windows_path_to_unix                                       *)

WindowsPathToUnix(prefix, v) ==
    LET normalized == CollapseDoubled(v)
    IN  IF IsDriveRooted(normalized)
        THEN LET drive     == LowerChar(normalized[1])
                 remainder == ToForwardSlashes(DropFirst(normalized, 3))
                 base      == IF drive = "c"
                              THEN JoinPath(prefix, <<"d","r","i","v","e","_","c">>)
                              ELSE JoinPath(prefix, <<"d","r","i","v","e","_">> \o <<drive>>)
             IN  JoinPath(base, remainder)
        ELSE ParsePath(ToForwardSlashes(normalized))

-----------------------------------------------------------------------------
(* The filesystem under the sandbox root, as the scanner sees it           *)

DotDot == <<".", ".">>

STEAMAPPS == <<"s","t","e","a","m","a","p","p","s">>

\* prefix / "drive_c" / ... / "Steam" (MainWindow.steam_dir), and a second
\* library on another drive; both written as pathlib keeps them
SteamDir == [root |-> "/", parts |-> << <<"p">>, <<"d","r","i","v","e","_","c">>, <<"S","t","e","a","m">> >>]
LibDir   == [root |-> "/", parts |-> << <<"p">>, <<"d","r","i","v","e","_","d">>, <<"l">> >>]

\* the directories that can be mounted or not, by their canonical components
LibDirs == {SteamDir.parts, LibDir.parts}

\* directories that are always there: /, the sandbox root, its drives, and
\* the working directory of the process
AlwaysDirs ==
    { <<>>, << <<"p">> >>, << <<"p">>, <<"d","r","i","v","e","_","c">> >>,
      << <<"p">>, <<"d","r","i","v","e","_","d">> >>, << <<"c","w","d">> >> }

Cwd == << <<"c","w","d">> >>

LibStates == {"absent", "bare", "steamapps"}

\* the directories present, given the state of each library directory
ExistingDirs(ls) ==
    AlwaysDirs
        \cup {d \in LibDirs : ls[d] # "absent"}
        \cup {Append(d, STEAMAPPS) : d \in {e \in LibDirs : ls[e] = "steamapps"}}

NoDir == << <<"?">> >>

ParentParts(parts) == IF parts = <<>> THEN <<>> ELSE SubSeq(parts, 1, Len(parts) - 1)

\* what the operating system makes of a path: the components are walked
\* from the root (or the working directory), ".." steps to the parent, and
\* every directory on the way has to exist
RECURSIVE ResolveFrom(_, _, _)
ResolveFrom(ls, cur, parts) ==
    IF parts = <<>> THEN cur
    ELSE LET nxt == IF Head(parts) = DotDot THEN ParentParts(cur)
                    ELSE Append(cur, Head(parts))
         IN  IF nxt \in ExistingDirs(ls) THEN ResolveFrom(ls, nxt, Tail(parts))
             ELSE NoDir

Resolve(ls, path) ==
    ResolveFrom(ls, IF path.root = "" THEN Cwd ELSE <<>>, path.parts)

\* Path.exists() for a directory
Exists(ls, path) == Resolve(ls, path) # NoDir

Range(s) == {s[i] : i \in DOMAIN s}

-----------------------------------------------------------------------------
(* SteamScanner.library_roots                                              *)

\* a (key, value) match of APPMANIFEST_RE: the key is kept as a word, the
\* value as the string it is
Pair(k, v) == [key |-> k, value |-> v]

NoFile     == [kind |-> "absent", pairs |-> <<>>]
Unreadable == [kind |-> "unreadable", pairs |-> <<>>]
Text(ps)   == [kind |-> "text", pairs |-> ps]

\* library_vdf.exists(): steam_dir / "steamapps" / "libraryfolders.vdf"
VdfExists(ls, file, steam_dir) ==
    /\ Resolve(ls, JoinPath(steam_dir, STEAMAPPS)) = Append(SteamDir.parts, STEAMAPPS)
    /\ file.kind # "absent"

\* the loop over the matches: a "path" value is translated, and appended
\* when it exists and no equal Path is in the list yet
RECURSIVE AddDeclared_NoExistsCheck(_, _, _, _)
AddDeclared_NoExistsCheck(ls, prefix, rs, pairs) ==
    IF pairs = <<>> THEN rs
    ELSE LET c == WindowsPathToUnix(prefix, Head(pairs).value)
         IN  IF Head(pairs).key = "path" /\ c \notin Range(rs)
             THEN AddDeclared_NoExistsCheck(ls, prefix, Append(rs, c), Tail(pairs))
             ELSE AddDeclared_NoExistsCheck(ls, prefix, rs, Tail(pairs))

RECURSIVE AddDeclared(_, _, _, _)
AddDeclared(ls, prefix, rs, pairs) ==
    IF pairs = <<>> THEN rs
    ELSE LET c == WindowsPathToUnix(prefix, Head(pairs).value)
         IN  IF Head(pairs).key = "path" /\ Exists(ls, c) /\ c \notin Range(rs)
             THEN AddDeclared(ls, prefix, Append(rs, c), Tail(pairs))
             ELSE AddDeclared(ls, prefix, rs, Tail(pairs))

LibraryRoots(ls, file, prefix, steam_dir) ==
    LET first == IF Exists(ls, steam_dir) THEN <<steam_dir>> ELSE <<>>
    IN  IF ~VdfExists(ls, file, steam_dir) THEN first
        ELSE IF file.kind = "unreadable" THEN first
        ELSE AddDeclared(ls, prefix, first, file.pairs)

\* values a library-declaration file may hold
VSteam      == <<"C",":","\\","\\","S","t","e","a","m">>
VLib        == <<"D",":","\\","\\","l">>
VLibLower   == <<"d",":","\\","l">>
VLibDotDot  == <<"D",":","\\","\\","l","\\","\\",".",".","\\","\\","l">>
VLibUnix    == <<"/","p","/","d","r","i","v","e","_","d","/","l","/">>
VGone       == <<"D",":","\\","\\","x">>
VSteamDotDot == <<"C",":","\\","\\","S","t","e","a","m","\\","\\",".",".","\\","\\","S","t","e","a","m">>

-----------------------------------------------------------------------------
(* SteamScanner.parse_appmanifest and SteamScanner.scan_games              *)

\* the characters in code-point order: Python compares strings by code point
AsciiOrder ==
    <<" ","-",".","/","0","1","2","3","4","5","6","7","8","9",":","A","B","C","D","E","F","G","H","I","J","K","L","M","N","O","P","Q","R","S","T">>
    \o <<"U","V","W","X","Y","Z","\\","_","a","b","c","d","e","f","g","h","i","j","k","l","m","n","o","p","q","r","s","t","u","v","w","x","y","z">>

CodePoint(c) == CHOOSE i \in DOMAIN AsciiOrder : AsciiOrder[i] = c

\* a < b for Python strings
RECURSIVE StrLess(_, _)
StrLess(a, b) ==
    IF b = <<>> THEN FALSE
    ELSE IF a = <<>> THEN TRUE
    ELSE IF a[1] = b[1] THEN StrLess(Tail(a), Tail(b))
    ELSE CodePoint(a[1]) < CodePoint(b[1])

\* the manifest files a steamapps directory may hold, in the order
\* sorted(steamapps.glob("appmanifest_*.acf")) yields them
ManifestFiles == << <<"a","p","p","m","a","n","i","f","e","s","t","_","1","0",".","a","c","f">>,
                    <<"a","p","p","m","a","n","i","f","e","s","t","_","2","0",".","a","c","f">> >>

Slots == DOMAIN ManifestFiles

\* the manifest files each library directory may hold
SlotsOf(d) == IF d = SteamDir.parts THEN Slots ELSE {1}

RequiredKeys == {"appid", "name", "installdir"}

HasKey(pairs, k) == \E i \in DOMAIN pairs : pairs[i].key = k

\* data[k] after the loop over the matches: the last value given for k
LastValue(pairs, k) ==
    IF HasKey(pairs, k)
    THEN pairs[CHOOSE i \in DOMAIN pairs :
                 /\ pairs[i].key = k
                 /\ \A j \in DOMAIN pairs : pairs[j].key = k => j <= i].value
    ELSE <<>>

ParentPath(path) == [root |-> path.root, parts |-> ParentParts(path.parts)]

NoEntry == [appid |-> <<>>, name |-> <<>>, install_dir_name |-> <<>>, library_root |-> NoPath]

GameEntry(a, n, d, r) == [appid |-> a, name |-> n, install_dir_name |-> d, library_root |-> r]

ParseAppmanifest_TwoKeys(path, file) ==
    IF file.kind # "text" THEN NoEntry
    ELSE IF ~(\A k \in {"appid", "name"} : HasKey(file.pairs, k)) THEN NoEntry
    ELSE GameEntry(LastValue(file.pairs, "appid"), LastValue(file.pairs, "name"),
                   LastValue(file.pairs, "installdir"), ParentPath(ParentPath(path)))

ParseAppmanifest(path, file) ==
    IF file.kind # "text" THEN NoEntry
    ELSE IF ~(\A k \in RequiredKeys : HasKey(file.pairs, k)) THEN NoEntry
    ELSE GameEntry(LastValue(file.pairs, "appid"), LastValue(file.pairs, "name"),
                   LastValue(file.pairs, "installdir"), ParentPath(ParentPath(path)))

\* the manifests of one steamapps directory, in sorted order
RECURSIVE ScanManifests(_, _, _, _)
ScanManifests(files, steamapps, slot, gs) ==
    IF slot \notin DOMAIN files THEN gs
    ELSE IF files[slot].kind = "absent"
         THEN ScanManifests(files, steamapps, slot + 1, gs)
         ELSE LET entry == ParseAppmanifest(JoinPath(steamapps, ManifestFiles[slot]),
                                            files[slot])
              IN  ScanManifests(files, steamapps, slot + 1,
                                IF entry # NoEntry THEN Append(gs, entry) ELSE gs)

\* the loop over the library roots
RECURSIVE ScanRoots(_, _, _, _)
ScanRoots(ls, mf, rs, gs) ==
    IF rs = <<>> THEN gs
    ELSE LET steamapps == JoinPath(Head(rs), STEAMAPPS)
         IN  IF ~Exists(ls, steamapps)
             THEN ScanRoots(ls, mf, Tail(rs), gs)
             ELSE ScanRoots(ls, mf, Tail(rs),
                            ScanManifests(mf[ParentParts(Resolve(ls, steamapps))],
                                          steamapps, 1, gs))

\* the same sort with the names compared as they are
RECURSIVE InsertByName(_, _)
InsertByName(sorted, g) ==
    IF sorted = <<>> THEN <<g>>
    ELSE IF StrLess(g.name, Head(sorted).name) THEN <<g>> \o sorted
    ELSE <<Head(sorted)>> \o InsertByName(Tail(sorted), g)

RECURSIVE SortByName(_, _)
SortByName(gs, sorted) ==
    IF gs = <<>> THEN sorted
    ELSE SortByName(Tail(gs), InsertByName(sorted, Head(gs)))

SortGames_CaseSensitive(gs) == SortByName(gs, <<>>)

\* the place of g in a list sorted by lower-cased name: after every entry
\* whose key is not greater (list.sort is stable)
RECURSIVE InsertByLowerName(_, _)
InsertByLowerName(sorted, g) ==
    IF sorted = <<>> THEN <<g>>
    ELSE IF StrLess(Lower(g.name), Lower(Head(sorted).name)) THEN <<g>> \o sorted
    ELSE <<Head(sorted)>> \o InsertByLowerName(Tail(sorted), g)

RECURSIVE SortByLowerName(_, _)
SortByLowerName(gs, sorted) ==
    IF gs = <<>> THEN sorted
    ELSE SortByLowerName(Tail(gs), InsertByLowerName(sorted, Head(gs)))

\* games.sort(key=lambda g: g.name.lower())
SortGames(gs) == SortByLowerName(gs, <<>>)

ScanGames(ls, file, mf, prefix, steam_dir) ==
    SortGames(ScanRoots(ls, mf, LibraryRoots(ls, file, prefix, steam_dir), <<>>))

\* contents a manifest file may have, as the matches APPMANIFEST_RE finds
MfB       == Text(<< Pair("appid", <<"1","0">>), Pair("name", <<"B">>), Pair("installdir", <<"F","o","o">>) >>)
Mfa       == Text(<< Pair("appid", <<"2","0">>), Pair("name", <<"a">>), Pair("installdir", <<"B","a","r">>) >>)
MfTwice   == Text(<< Pair("appid", <<"4","0">>), Pair("name", <<"z">>), Pair("StateFlags", <<"4">>), Pair("installdir", <<"B","a","z">>), Pair("name", <<"A","b">>) >>)
MfNoName  == Text(<< Pair("appid", <<"3","0">>), Pair("installdir", <<"B","a","z">>) >>)
MfNoAppid == Text(<< Pair("name", <<"c">>), Pair("installdir", <<"B","a","z">>) >>)
MfNoDir   == Text(<< Pair("appid", <<"3","0">>), Pair("name", <<"c">>) >>)

ManifestContents == {MfB, Mfa, MfTwice, MfNoName, MfNoAppid, MfNoDir, Unreadable}

-----------------------------------------------------------------------------
(* GameEntry.detect_exe                                                    *)

\* s ends with suf
EndsWith(s, suf) ==
    /\ Len(s) >= Len(suf)
    /\ SubSeq(s, Len(s) - Len(suf) + 1, Len(s)) = suf

\* sub in s
Contains(s, sub) ==
    \E i \in 1..(Len(s) - Len(sub) + 1) : SubSeq(s, i, i + Len(sub) - 1) = sub

\* s.replace(' ', '')
RECURSIVE StripSpaces(_)
StripSpaces(s) ==
    IF s = <<>> THEN <<>>
    ELSE IF s[1] = " " THEN StripSpaces(Tail(s))
    ELSE <<s[1]>> \o StripSpaces(Tail(s))

DotExe == <<".","e","x","e">>

\* the pattern "*-Shipping.exe" of the fast path
ShippingSuffix == <<"-","S","h","i","p","p","i","n","g",".","e","x","e">>

\* bad_tokens of _is_probably_not_game
BadTokens ==
    { <<"u","n","i","t","y","c","r","a","s","h","h","a","n","d","l","e","r">>,
      <<"c","r","a","s","h","h","a","n","d","l","e","r">>,
      <<"u","n","i","n","s">>,
      <<"u","n","i","n","s","t","a","l","l">>,
      <<"s","e","t","u","p">>,
      <<"l","a","u","n","c","h","e","r","h","e","l","p","e","r">>,
      <<"s","t","e","a","m","e","r","r","o","r","r","e","p","o","r","t","e","r">>,
      <<"v","c","r","e","d","i","s","t">>,
      <<"d","x","s","e","t","u","p">> }

\* the one token the other variant of the program skips
BadTokensNd == { <<"u","n","i","t","y","c","r","a","s","h","h","a","n","d","l","e","r">> }

\* _is_probably_not_game
IsProbablyNotGame(name) == \E t \in BadTokens : Contains(Lower(name), t)

\* "unitycrashhandler" in lowered, the test of the other variant
IsCrashHandlerNd(name) == \E t \in BadTokensNd : Contains(Lower(name), t)

\* "shipping.exe" in p.name.lower()
LooksShipping(name) == Contains(Lower(name), <<"s","h","i","p","p","i","n","g",".","e","x","e">>)

\* the names entries of the install tree may have
ExeNames ==
    { <<"F","o","o",".","e","x","e">>,
      <<"G","a","m","e",".","e","x","e">>,
      <<"s","e","t","u","p",".","e","x","e">>,
      <<"U","n","i","t","y","C","r","a","s","h","H","a","n","d","l","e","r","6","4",".","e","x","e">>,
      <<"F","o","o","-","W","i","n","6","4","-","S","h","i","p","p","i","n","g","-","o","l","d",".","e","x","e">>,
      <<"B","a","r","-","S","h","i","p","p","i","n","g",".","e","x","e">>,
      <<"G","a","m","e","S","h","i","p","p","i","n","g",".","e","x","e">>,
      <<"F","o","o","-","W","i","n","6","4","-","S","h","i","p","p","i","n","g",".","e","x","e">> }

\* the tests on names, evaluated once for the names of ExeNames
ShippingNames    == {n \in ExeNames : EndsWith(n, ShippingSuffix)}
DotExeNames      == {n \in ExeNames : EndsWith(n, DotExe)}
NotGameNames     == {n \in ExeNames : IsProbablyNotGame(n)}
CrashHandlerNd   == {n \in ExeNames : IsCrashHandlerNd(n)}
LooksShippingNames == {n \in ExeNames : LooksShipping(n)}

\* an entry of the install tree: the directories below game_dir it lies in,
\* and its name. What is there is a regular file of some size, a directory,
\* or a link to nothing.
ExePath(d, n) == [dir |-> d, name |-> n]

Absent      == [kind |-> "absent", size |-> 0]
File(n)     == [kind |-> "file", size |-> n]
Directory   == [kind |-> "dir", size |-> 0]
Dangling    == [kind |-> "dangling", size |-> 0]

NoExe == ExePath(<<>>, <<>>)

\* os.scandir lists it
Listed(t, p) == t[p].kind # "absent"

\* Path.exists(): a link to nothing does not exist
EntryExists(t, p) == t[p].kind \in {"file", "dir"}

\* Path.is_file()
IsFile(t, p) == t[p].kind = "file"

\* Path.stat().st_size of an entry that exists; ds is what the filesystem
\* reports for a directory
StatSize(t, ds, p) == IF t[p].kind = "dir" THEN ds ELSE t[p].size

\* sorted(..., reverse=True) on keys given as a function: stable, so
\* entries with equal keys keep the order they were listed in
RECURSIVE InsertDesc(_, _, _)
InsertDesc(sorted, key, p) ==
    IF sorted = <<>> THEN <<p>>
    ELSE IF key[Head(sorted)] < key[p] THEN <<p>> \o sorted
    ELSE <<Head(sorted)>> \o InsertDesc(Tail(sorted), key, p)

RECURSIVE SortDescFrom(_, _, _)
SortDescFrom(ps, key, sorted) ==
    IF ps = <<>> THEN sorted
    ELSE SortDescFrom(Tail(ps), key, InsertDesc(sorted, key, Head(ps)))

SortDesc(ps, key) == SortDescFrom(ps, key, <<>>)

\* game_dir.glob("**/*-Shipping.exe"): every listed entry of that name, at
\* any depth, in the order ord in which the filesystem lists entries
GlobShipping(t, ord) ==
    LET Match(p) == Listed(t, p) /\ p.name \in ShippingNames
    IN  SelectSeq(ord, Match)

\* game_dir.glob("*/.../*.exe") with k directory levels; k = 0 is "*.exe"
GlobExe(t, ord, k) ==
    LET Match(p) == Listed(t, p) /\ Len(p.dir) = k /\ p.name \in DotExeNames
    IN  SelectSeq(ord, Match)

\* the deepest pattern of the subtree scan
MaxGlobDepth == 7

\* the loop over patterns: files that pass the denylist, pattern by pattern
RECURSIVE SubExes(_, _, _)
SubExes(t, ord, k) ==
    IF k > MaxGlobDepth THEN <<>>
    ELSE LET Keep(p) == IsFile(t, p) /\ p.name \notin NotGameNames
         IN  SelectSeq(GlobExe(t, ord, k), Keep) \o SubExes(t, ord, k + 1)

\* the four names tried in the root folder
ExactNames(install_dir_name, name) ==
    << install_dir_name \o DotExe,
       name \o DotExe,
       StripSpaces(name) \o DotExe,
       StripSpaces(install_dir_name) \o DotExe >>

\* the first entry of the candidate list that exists and is a regular file
RECURSIVE FirstFile(_, _)
FirstFile(t, cands) ==
    IF cands = <<>> THEN NoExe
    ELSE IF EntryExists(t, Head(cands)) /\ IsFile(t, Head(cands)) THEN Head(cands)
    ELSE FirstFile(t, Tail(cands))

Returned(p)   == [path |-> p, raised |-> FALSE, searched |-> TRUE]
RaisedError   == [path |-> NoExe, raised |-> TRUE, searched |-> TRUE]
NoDirectory   == [path |-> NoExe, raised |-> FALSE, searched |-> FALSE]

\* tiers 1 to 4 of detect_exe, reached when the fast path found nothing
DetectByTiers(g, t, ord, ds) ==
    LET names    == ExactNames(g.install_dir_name, g.name)
        Here(p)  == p \in DOMAIN t /\ EntryExists(t, p)
        exact    == SelectSeq([i \in DOMAIN names |-> ExePath(<<>>, names[i])], Here)
        rootGlob == GlobExe(t, ord, 0)
        sizeOf   == [p \in DOMAIN t |-> IF EntryExists(t, p) THEN StatSize(t, ds, p) ELSE 0]
        Plausible(p) == p.name \notin NotGameNames
        rootExes == SelectSeq(SortDesc(rootGlob, sizeOf), Plausible)
        subExes  == SubExes(t, ord, 1)
        IsShip(p) == p.name \in LooksShippingNames
        shipping == SortDesc(SelectSeq(subExes, IsShip), sizeOf)
        cands    == exact \o rootExes \o shipping \o SortDesc(subExes, sizeOf)
    IN  IF \E i \in DOMAIN rootGlob : ~EntryExists(t, rootGlob[i])
        THEN RaisedError
        ELSE Returned(FirstFile(t, cands))

\* detect_exe without the test of game_dir
DetectExe_NoDirCheck(g, t, dirExists, ord, ds) ==
    LET sizeOf   == [p \in DOMAIN t |-> IF EntryExists(t, p) THEN StatSize(t, ds, p) ELSE 0]
        shipping == SortDesc(GlobShipping(t, ord), sizeOf)
    IN  IF shipping # <<>> THEN Returned(shipping[1])
        ELSE DetectByTiers(g, t, ord, ds)

\* GameEntry.detect_exe of MacNCheese.py
DetectExe(g, t, dirExists, ord, ds) ==
    IF ~dirExists THEN NoDirectory
    ELSE LET sizeOf   == [p \in DOMAIN t |->
                            IF EntryExists(t, p) THEN StatSize(t, ds, p) ELSE 0]
             shipping == SortDesc(GlobShipping(t, ord), sizeOf)
         IN  IF shipping # <<>> THEN Returned(shipping[1])
             ELSE DetectByTiers(g, t, ord, ds)

\* GameEntry.detect_exe of MacNdCheese.py
DetectExeNd(g, t, dirExists, ord, ds) ==
    LET exact      == ExePath(<<>>, g.install_dir_name \o DotExe)
        simplified == ExePath(<<>>, g.name \o DotExe)
        rootGlob   == GlobExe(t, ord, 0)
        sizeOf     == [p \in DOMAIN t |-> IF EntryExists(t, p) THEN StatSize(t, ds, p) ELSE 0]
        Kept(p)    == p.name \notin CrashHandlerNd
        exes       == SelectSeq(SortDesc(rootGlob, sizeOf), Kept)
    IN  IF ~dirExists THEN NoDirectory
        ELSE IF exact \in DOMAIN t /\ EntryExists(t, exact) THEN Returned(exact)
        ELSE IF simplified \in DOMAIN t /\ EntryExists(t, simplified) THEN Returned(simplified)
        ELSE IF \E i \in DOMAIN rootGlob : ~EntryExists(t, rootGlob[i]) THEN RaisedError
        ELSE IF exes # <<>> THEN Returned(exes[1])
        ELSE Returned(NoExe)

-----------------------------------------------------------------------------
(* One title and its install tree: entries are put into the tree, the       *)
(* install directory is removed and made again, and detect_exe is called    *)
(* on what is there, in either variant of the program.                      *)

MaxEntries == 3

MaxSize == 2

\* the record of the title, as a catalog scan made it
TheGame == GameEntry(<<"1","0">>, <<"F","o","o"," ","B","a","r">>, <<"F","o","o">>, SteamDir)

BinariesWin64 == << <<"B","i","n","a","r","i","e","s">>, <<"W","i","n","6","4">> >>

BinariesWin32 == << <<"B","i","n","a","r","i","e","s">>, <<"W","i","n","3","2">> >>

\* the entries the install tree may hold, in the order the filesystem lists
\* them (or in the reverse of it)
ExeOrder ==
    << ExePath(<<>>, <<"F","o","o",".","e","x","e">>),
       ExePath(<<>>, <<"G","a","m","e",".","e","x","e">>),
       ExePath(<<>>, <<"s","e","t","u","p",".","e","x","e">>),
       ExePath(<<>>, <<"U","n","i","t","y","C","r","a","s","h","H","a","n","d","l","e","r","6","4",".","e","x","e">>),
       ExePath(<<>>, <<"F","o","o","-","W","i","n","6","4","-","S","h","i","p","p","i","n","g","-","o","l","d",".","e","x","e">>),
       ExePath(<<>>, <<"B","a","r","-","S","h","i","p","p","i","n","g",".","e","x","e">>),
       ExePath(BinariesWin64, <<"F","o","o","-","W","i","n","6","4","-","S","h","i","p","p","i","n","g",".","e","x","e">>),
       ExePath(BinariesWin32, <<"G","a","m","e","S","h","i","p","p","i","n","g",".","e","x","e">>) >>

ExePaths == Range(ExeOrder)

Reverse(s) == [i \in DOMAIN s |-> s[Len(s) + 1 - i]]

EnumOrders == {ExeOrder, Reverse(ExeOrder)}

EntryStates == {File(n) : n \in 1..MaxSize} \cup {Directory, Dangling}

IndexOf(p) == CHOOSE i \in DOMAIN ExeOrder : ExeOrder[i] = p

NoResult == [path |-> NoExe, raised |-> FALSE, searched |-> FALSE]

\* the overlay files, in the order the program goes through them
DXVK_DLLS == <<"dxgi.dll", "d3d11.dll", "d3d10core.dll">>

\* what a file holds: nothing is there, or the output of one build
NoContent == "none"
Builds == {"build1", "build2"}

DeepWin64 ==
    << <<"W","i","n","d","o","w","s","N","o","E","d","i","t","o","r">>, <<"F","o","o">>,
       <<"B","i","n","a","r","i","e","s">>, <<"W","i","n","6","4">> >>

\* the directories of the install tree, the install directory (<<>>) first
SubDirs == {BinariesWin64, DeepWin64, BinariesWin32}
TreeDirs == {<<>>} \cup SubDirs

NoOverlay == [dll \in Range(DXVK_DLLS) |-> NoContent]

NoPatch == [status |-> "none", warnings |-> <<>>, copied |-> {}, failed |-> {},
            created |-> FALSE, exe |-> NoExe, runs |-> 0]

InitPatchVars ==
    /\ sources = NoOverlay
    /\ subdirs = {}
    /\ locked = {}
    /\ overlay = [d \in TreeDirs |-> NoOverlay]
    /\ patch = NoPatch

\* the files ~/dxvk-logs may hold: the log of the title, the log of its
\* shipping build, the log of another title, and a file that is no d3d11 log
LogNames ==
    << <<"F","o","o","_","d","3","d","1","1",".","l","o","g">>,
       <<"F","o","o","-","W","i","n","6","4","-","S","h","i","p","p","i","n","g","_","d","3","d","1","1",".","l","o","g">>,
       <<"O","t","h","e","r","_","d","3","d","1","1",".","l","o","g">>,
       <<"F","o","o","_","d","x","g","i",".","l","o","g">> >>

NoLog == <<>>

\* last_game_launch_ts before any launch: the empty table
NoLaunches == [a \in {} |-> 0]

NoLogFound == [called |-> FALSE, path |-> NoLog]

InitLogVars ==
    /\ logsDir = FALSE
    /\ logs = [n \in Range(LogNames) |-> 0]
    /\ launchTs = NoLaunches
    /\ logFound = NoLogFound

\* the two programs of the repository
Variants == {"MacNCheese", "MacNdCheese"}

MaxThreads == 3

MaxProcs == 2

ThreadIds == 1..MaxThreads
ProcIds == 1..MaxProcs

NoProc == [kind |-> "none", state |-> "NotRunning"]

NoLaunch == [call |-> "none", outcome |-> "none"]

NotClosed == [closed |-> FALSE, signalled |-> {}, live |-> {}]

InitWorkerVars ==
    /\ workerThread = 0
    /\ worker = 0
    /\ threads = [t \in ThreadIds |-> "unused"]
    /\ mainQueue = <<>>
    /\ runResult = "none"

InitProcVars ==
    /\ procs = [p \in ProcIds |-> NoProc]
    /\ steamProcess = 0
    /\ gameProcess = 0
    /\ wineLog = NoLaunches
    /\ launch = NoLaunch
    /\ shutdown = NotClosed

\* CommandWorker.run before it is called: the commands of the pipeline, the
\* commands started so far, the one that runs (0: none), the exit codes
\* seen, the finished and error signals emitted, whether run has returned
NoRun == [active |-> FALSE, cmds |-> <<>>, started |-> <<>>, running |-> 0, codes |-> <<>>,
          finished |-> <<>>, errors |-> 0, returned |-> FALSE]

NoGame == [appid |-> <<>>, name |-> <<>>, install_dir_name |-> <<>>, library_root |-> NoPath]

NoClosure == [game |-> NoGame, exe |-> NoExe]

NoShown == [by |-> NoGame, dxvkOf |-> NoGame, dxvk |-> NoLog, wine |-> NoLog, warning |-> ""]

InitEndVars ==
    /\ run = NoRun
    /\ launched = [p \in ProcIds |-> NoClosure]
    /\ selection = NoGame
    /\ shown = NoShown

InitAppVars ==
    /\ InitPatchVars
    /\ InitLogVars
    /\ variant = "MacNCheese"
    /\ InitWorkerVars
    /\ InitProcVars
    /\ InitEndVars

InitPathVars ==
    /\ value = <<>>
    /\ converted = NoPath

InitLibVars ==
    /\ libState = [d \in LibDirs |-> "absent"]
    /\ vdf = NoFile
    /\ manifests = [d \in LibDirs |-> [i \in SlotsOf(d) |-> NoFile]]
    /\ called = "none"
    /\ roots = <<>>
    /\ games = <<>>

InitExeVars ==
    /\ gameDir = FALSE
    /\ dirRemoved = FALSE
    /\ tree = [p \in ExePaths |-> Absent]
    /\ exeCall = "none"
    /\ exe = NoResult

ForgetExe ==
    /\ exeCall' = "none"
    /\ exe' = NoResult

CreateGameDir ==
    /\ ~gameDir
    /\ gameDir' = TRUE
    /\ dirRemoved' = FALSE
    /\ ForgetExe
    /\ UNCHANGED <<tree, varsPath, varsLibFs, varsLibOut, varsApp>>

\* the install directory is deleted with all it holds
RemoveGameDir ==
    /\ gameDir
    /\ gameDir' = FALSE
    /\ dirRemoved' = TRUE
    /\ tree' = [p \in ExePaths |-> Absent]
    /\ ForgetExe
    /\ UNCHANGED <<varsPath, varsLibFs, varsLibOut, varsApp>>

\* an entry appears in the tree (entries are put in listing order, which
\* reaches every tree of up to MaxEntries entries)
PlaceEntry(p, st) ==
    /\ gameDir
    /\ Cardinality({q \in ExePaths : tree[q] # Absent}) < MaxEntries
    /\ \A q \in ExePaths : IndexOf(q) >= IndexOf(p) => tree[q] = Absent
    /\ tree' = [tree EXCEPT ![p] = st]
    /\ ForgetExe
    /\ UNCHANGED <<gameDir, dirRemoved, varsPath, varsLibFs, varsLibOut, varsApp>>

CallDetectExe ==
    /\ exeCall = "none"
    /\ \E ord \in EnumOrders : \E ds \in 1..MaxSize :
          exe' = DetectExe(TheGame, tree, gameDir, ord, ds)
    /\ exeCall' = "MacNCheese"
    /\ UNCHANGED <<tree, gameDir, dirRemoved, varsPath, varsLibFs, varsLibOut, varsApp>>

CallDetectExeNd ==
    /\ exeCall = "none"
    /\ \E ord \in EnumOrders : \E ds \in 1..MaxSize :
          exe' = DetectExeNd(TheGame, tree, gameDir, ord, ds)
    /\ exeCall' = "MacNdCheese"
    /\ UNCHANGED <<tree, gameDir, dirRemoved, varsPath, varsLibFs, varsLibOut, varsApp>>

\* the caller takes the result
ReturnExe ==
    /\ exeCall # "none"
    /\ ForgetExe
    /\ UNCHANGED <<tree, gameDir, dirRemoved, varsPath, varsLibFs, varsLibOut, varsApp>>

InitExe ==
    /\ InitPathVars
    /\ InitLibVars
    /\ InitExeVars
    /\ InitAppVars

NextExe ==
    \/ CreateGameDir
    \/ RemoveGameDir
    \/ \E p \in ExePaths, st \in EntryStates : PlaceEntry(p, st)
    \/ CallDetectExe
    \/ CallDetectExeNd
    \/ ReturnExe

SpecExe == InitExe /\ [][NextExe]_vars

-----------------------------------------------------------------------------
(* Path translation on its own: a declared value is typed character by      *)
(* character, or taken from the examples, and then translated.              *)

MaxValueLen == 6

ValueAlphabet == {"C", "d", ":", BS, SL}

ExampleValues ==
    { <<"C",":","\\","G","a","m","e","s","\\","F","o","o">>,
      <<"c",":","\\","G","a","m","e","s","\\","F","o","o">>,
      <<"C",":","\\","\\","G","a","m","e","s","\\","\\","F","o","o">>,
      <<"/","a","l","r","e","a","d","y","/","u","n","i","x","/","p","a","t","h">>,
      <<"G","a","m","e","s","\\","F","o","o">> }

InitPath ==
    /\ InitPathVars
    /\ InitLibVars
    /\ InitExeVars
    /\ InitAppVars

TypeChar(c) ==
    /\ converted = NoPath
    /\ Len(value) < MaxValueLen
    /\ value' = Append(value, c)
    /\ UNCHANGED <<converted, varsLibFs, varsLibOut, varsExe, varsApp>>

LoadExample(v) ==
    /\ converted = NoPath
    /\ value = <<>>
    /\ value' = v
    /\ UNCHANGED <<converted, varsLibFs, varsLibOut, varsExe, varsApp>>

Convert ==
    /\ converted = NoPath
    /\ converted' = WindowsPathToUnix(Prefix, value)
    /\ UNCHANGED <<value, varsLibFs, varsLibOut, varsExe, varsApp>>

ClearValue ==
    /\ converted # NoPath
    /\ value' = <<>>
    /\ converted' = NoPath
    /\ UNCHANGED <<varsLibFs, varsLibOut, varsExe, varsApp>>

NextPath ==
    \/ \E c \in ValueAlphabet : TypeChar(c)
    \/ \E v \in ExampleValues : LoadExample(v)
    \/ Convert
    \/ ClearValue

SpecPath == InitPath /\ [][NextPath]_vars

-----------------------------------------------------------------------------
(* The scanner and the filesystem it reads: library directories are         *)
(* mounted and unmounted, the declaration file and the manifests are        *)
(* written, and the scanner is called on what is there.                     *)

MaxDecl == 2

MaxScanDecl == 1

DeclaredValues == {VSteam, VLib, VLibLower, VLibDotDot, VLibUnix, VGone, VSteamDotDot}

DeclPairs == {Pair("path", v) : v \in DeclaredValues} \cup {Pair("label", VLib)}

ScanPairs == {Pair("path", VLib), Pair("path", VSteamDotDot)}

ForgetResults ==
    /\ called' = "none"
    /\ roots' = <<>>
    /\ games' = <<>>

SetLibState(d, st) ==
    /\ libState[d] # st
    /\ libState' = [libState EXCEPT ![d] = st]
    /\ ForgetResults
    /\ UNCHANGED <<vdf, manifests, varsPath, varsExe, varsApp>>

Declare(pair, bound) ==
    /\ vdf.kind \in {"absent", "text"}
    /\ Len(vdf.pairs) < bound
    /\ vdf' = Text(Append(vdf.pairs, pair))
    /\ ForgetResults
    /\ UNCHANGED <<libState, manifests, varsPath, varsExe, varsApp>>

SpoilVdf ==
    /\ vdf.kind = "text"
    /\ vdf' = Unreadable
    /\ ForgetResults
    /\ UNCHANGED <<libState, manifests, varsPath, varsExe, varsApp>>

DeleteVdf ==
    /\ vdf.kind # "absent"
    /\ vdf' = NoFile
    /\ ForgetResults
    /\ UNCHANGED <<libState, manifests, varsPath, varsExe, varsApp>>

WriteManifest(d, slot, content) ==
    /\ manifests[d][slot] # content
    /\ manifests' = [manifests EXCEPT ![d][slot] = content]
    /\ ForgetResults
    /\ UNCHANGED <<libState, vdf, varsPath, varsExe, varsApp>>

CallLibraryRoots ==
    /\ called' = "library_roots"
    /\ roots' = LibraryRoots(libState, vdf, Prefix, SteamDir)
    /\ games' = <<>>
    /\ UNCHANGED <<varsLibFs, varsPath, varsExe, varsApp>>

\* scan_games; roots keeps what its call of library_roots returned
CallScanGames ==
    /\ called' = "scan_games"
    /\ roots' = LibraryRoots(libState, vdf, Prefix, SteamDir)
    /\ games' = ScanGames(libState, vdf, manifests, Prefix, SteamDir)
    /\ UNCHANGED <<varsLibFs, varsPath, varsExe, varsApp>>

InitLib ==
    /\ InitPathVars
    /\ InitLibVars
    /\ InitExeVars
    /\ InitAppVars

NextLib ==
    \/ \E d \in LibDirs, st \in LibStates : SetLibState(d, st)
    \/ \E pair \in DeclPairs : Declare(pair, MaxDecl)
    \/ SpoilVdf
    \/ DeleteVdf
    \/ CallLibraryRoots

SpecLib == InitLib /\ [][NextLib]_vars

NextScan ==
    \/ \E d \in LibDirs, st \in LibStates : SetLibState(d, st)
    \/ \E pair \in ScanPairs : Declare(pair, MaxScanDecl)
    \/ \E d \in LibDirs : \E slot \in SlotsOf(d) :
          \E content \in ManifestContents \cup {NoFile} : WriteManifest(d, slot, content)
    \/ CallScanGames

SpecScan == InitLib /\ [][NextScan]_vars

\* C1: every path library_roots returns existed when the call checked it;
\* a declared path that does not exist is not in the list.
C1_RootsExist ==
    called # "none" =>
        /\ \A i \in DOMAIN roots : Exists(libState, roots[i])
        /\ \A i \in DOMAIN vdf.pairs :
              (vdf.pairs[i].key = "path"
                 /\ ~Exists(libState, WindowsPathToUnix(Prefix, vdf.pairs[i].value)))
              => WindowsPathToUnix(Prefix, vdf.pairs[i].value) \notin Range(roots)

\* a call that met a declared library that is mounted and one that is not
C1_Witness ==
    /\ called = "library_roots"
    /\ Len(roots) = 2
    /\ \E i \in DOMAIN vdf.pairs :
          /\ vdf.pairs[i].key = "path"
          /\ ~Exists(libState, WindowsPathToUnix(Prefix, vdf.pairs[i].value))

\* C2: no two entries of the list library_roots returns are the same
\* directory, however the declared values spell it.
C2_NoDirectoryTwice ==
    called # "none" =>
        \A i, j \in DOMAIN roots :
            i # j => Resolve(libState, roots[i]) # Resolve(libState, roots[j])

\* a manifest that can be read and has the three required keys
WellFormed(file) ==
    /\ file.kind = "text"
    /\ \A k \in RequiredKeys : \E i \in DOMAIN file.pairs : file.pairs[i].key = k

\* the manifest files of the steamapps directory of root r, if it has one
ManifestsAt(r) ==
    LET steamapps == JoinPath(r, STEAMAPPS)
    IN  IF Exists(libState, steamapps)
        THEN manifests[ParentParts(Resolve(libState, steamapps))]
        ELSE <<>>

RecordsOf(r) == {i \in DOMAIN games : games[i].library_root = r}

\* C4: a manifest that lacks one of appid, name, installdir, or cannot be
\* read, gives no record; every other manifest, in the same and in the other
\* library roots, gives exactly one; the scan goes on past a malformed one.
C4_MalformedSkipped ==
    called = "scan_games" =>
        /\ \A i \in DOMAIN games : games[i].library_root \in Range(roots)
        /\ \A r \in Range(roots) :
              /\ Cardinality(RecordsOf(r))
                   = Cardinality({k \in DOMAIN ManifestsAt(r) : WellFormed(ManifestsAt(r)[k])})
              /\ \A k \in DOMAIN ManifestsAt(r) :
                    WellFormed(ManifestsAt(r)[k]) =>
                        \E i \in RecordsOf(r) :
                            \E n \in DOMAIN ManifestsAt(r)[k].pairs :
                                /\ ManifestsAt(r)[k].pairs[n].key = "appid"
                                /\ ManifestsAt(r)[k].pairs[n].value = games[i].appid

\* a scan of two library roots: one holds a malformed manifest next to a
\* complete one, the other a complete one
C4_Witness ==
    /\ called = "scan_games"
    /\ Len(roots) = 2
    /\ Resolve(libState, roots[1]) # Resolve(libState, roots[2])
    /\ Len(games) = 2
    /\ \E k \in DOMAIN ManifestsAt(roots[1]) :
          /\ ManifestsAt(roots[1])[k].kind # "absent"
          /\ ~WellFormed(ManifestsAt(roots[1])[k])
    /\ RecordsOf(roots[1]) # {}
    /\ RecordsOf(roots[2]) # {}

\* C5: the catalog is sorted by lower-cased name over all library roots
\* together, and the library root of a record is the grandparent directory
\* of a manifest file that carries the record's appid.
C5_SortedByLowerName ==
    called = "scan_games" =>
        /\ \A i, j \in DOMAIN games :
              i < j => ~StrLess(Lower(games[j].name), Lower(games[i].name))
        /\ \A i \in DOMAIN games :
              /\ games[i].library_root \in Range(roots)
              /\ \E k \in DOMAIN ManifestsAt(games[i].library_root) :
                    LET file == ManifestsAt(games[i].library_root)[k]
                    IN  /\ WellFormed(file)
                        /\ \E n \in DOMAIN file.pairs :
                              /\ file.pairs[n].key = "appid"
                              /\ file.pairs[n].value = games[i].appid

\* a title of the second library root sorted before one of the primary
\* root, although its name is the greater one by code point
C5_Witness ==
    /\ called = "scan_games"
    /\ Len(games) = 2
    /\ games[1].library_root = LibDir
    /\ games[2].library_root = SteamDir
    /\ StrLess(games[2].name, games[1].name)

\* C6: no two records of a catalog carry the same appid.
C6_AppidUnique ==
    called = "scan_games" =>
        \A i, j \in DOMAIN games : i # j => games[i].appid # games[j].appid

\* two paths name the same location when their components agree and both
\* are absolute or both relative (the roots "/" and "//" are not told apart)
SameLocation(p, q) ==
    /\ p.parts = q.parts
    /\ (p.root = "") = (q.root = "")

\* C3: for a value <letter>:\<remainder> the result is
\* prefix/drive_<lowercased letter>/<remainder, backslashes turned into
\* slashes>; for any other value the result is the value with backslashes
\* turned into slashes. (Results are compared as locations, which is the
\* reading most favourable to the claim.)
C3_TranslationAsStated ==
    converted # NoPath =>
        IF IsDriveRooted(value)
        THEN SameLocation(converted,
                 ParsePath(<<"/","p","/","d","r","i","v","e","_">>
                           \o <<LowerChar(value[1])>> \o <<SL>>
                           \o ToForwardSlashes(DropFirst(value, 3))))
        ELSE SameLocation(converted, ParsePath(ToForwardSlashes(value)))

\* C7: detect_exe returns "not found", raises nothing and searches nothing
\* when the install directory does not exist at the call, also after the
\* directory of a catalogued title was deleted.
C7_NoDirNotFound ==
    (exeCall # "none" /\ ~gameDir) =>
        /\ exe.path = NoExe
        /\ ~exe.raised
        /\ ~exe.searched

\* a call made after the install directory was deleted
C7_Witness ==
    /\ exeCall = "MacNCheese"
    /\ ~gameDir
    /\ dirRemoved
    /\ exe.path = NoExe

\* a regular file of the tree whose name ends with -Shipping.exe
ShippingFile(p) == IsFile(tree, p) /\ EndsWith(p.name, ShippingSuffix)

\* C8: when the install tree holds, at any depth, a file whose name ends
\* with -Shipping.exe, detect_exe returns the largest such file, whatever
\* else the tree holds; a name that only contains the suffix is no match.
C8_LargestShippingFile ==
    (exeCall = "MacNCheese" /\ gameDir /\ \E p \in ExePaths : ShippingFile(p)) =>
        /\ ~exe.raised
        /\ exe.path \in ExePaths
        /\ ShippingFile(exe.path)
        /\ \A q \in ExePaths : ShippingFile(q) => tree[q].size <= tree[exe.path].size

\* a regular file directly in the install directory that passes the
\* denylist of the claim
PlausibleRootFile(p) ==
    /\ IsFile(tree, p)
    /\ p.dir = <<>>
    /\ EndsWith(p.name, DotExe)
    /\ ~IsProbablyNotGame(p.name)

ExactNameThere ==
    \E i \in 1..4 :
        LET p == ExePath(<<>>, ExactNames(TheGame.install_dir_name, TheGame.name)[i])
        IN  p \in ExePaths /\ tree[p] # Absent

\* C9: with no shipping-build file and no exact-name file, detect_exe
\* returns the largest executable of the root folder whose lower-cased name
\* holds no denylisted substring, in both variants of the program.
C9_LargestPlausibleRootExe ==
    ( /\ exeCall # "none"
      /\ gameDir
      /\ \A p \in ExePaths : tree[p] # Absent => ~EndsWith(p.name, ShippingSuffix)
      /\ ~ExactNameThere
      /\ \E p \in ExePaths : PlausibleRootFile(p) ) =>
        /\ ~exe.raised
        /\ exe.path \in ExePaths
        /\ PlausibleRootFile(exe.path)
        /\ \A q \in ExePaths : PlausibleRootFile(q) => tree[q].size <= tree[exe.path].size

\* C10: a path detect_exe returns, from any tier, is a regular file that
\* exists; a directory or a link to nothing is never returned.
C10_ReturnedIsRegularFile ==
    (exeCall = "MacNCheese" /\ exe.path # NoExe) => IsFile(tree, exe.path)

\* C20: detect_exe never raises: for an install directory that exists and
\* for every state of its tree, entries that cannot be stat-ed included,
\* the call ends with a path or with "not found".
C20_NeverRaises ==
    (exeCall = "MacNCheese" /\ gameDir) => ~exe.raised

-----------------------------------------------------------------------------
(* MainWindow.patch_selected_game                                          *)

\* a copy that writes after what the destination already holds
Copy2_Append(src, old) == IF old = NoContent THEN src ELSE "stale"

\* shutil.copy2 onto a file: the destination holds what the source holds
Copy2(src, old) == src

\* a check of the first overlay file only
MissingDll_FirstOnly(src) == IF src[DXVK_DLLS[1]] = NoContent THEN 1 ELSE 0

\* the check of dxvk_install/bin before any copy: the index of the first
\* overlay file that is not there, 0 when all are
MissingDll(src) ==
    LET miss == {i \in DOMAIN DXVK_DLLS : src[DXVK_DLLS[i]] = NoContent}
    IN  IF miss = {} THEN 0 ELSE CHOOSE i \in miss : \A j \in miss : i <= j

\* for dll in DXVK_DLLS: shutil.copy2(dxvk_bin / dll, dir / dll), from the
\* i-th file on; copy2 raises when the source is not there or the directory
\* refuses the write, and the files copied before stay
RECURSIVE CopyFrom(_, _, _, _)
CopyFrom(i, src, files, refused) ==
    IF i > Len(DXVK_DLLS) THEN [files |-> files, ok |-> TRUE, n |-> i - 1]
    ELSE IF refused \/ src[DXVK_DLLS[i]] = NoContent
         THEN [files |-> files, ok |-> FALSE, n |-> i - 1]
    ELSE CopyFrom(i + 1, src,
                  [files EXCEPT ![DXVK_DLLS[i]] = Copy2(src[DXVK_DLLS[i]], @)], refused)

CopyDlls(src, files, refused) == CopyFrom(1, src, files, refused)

\* the copies a loop made into directory d
CopiedInto(d, n) == {<<d, DXVK_DLLS[j]>> : j \in 1..n}

\* Path.exists() / is_dir() of a directory of the install tree
DirExists(gd, t, subs, d) ==
    IF d = <<>> THEN gd
    ELSE gd /\ (d \in subs \/ \E p \in DOMAIN t : p.dir = d /\ t[p] # Absent)

\* the path ends in Binaries/Win64
EndsInWin64(d) ==
    Len(d) >= Len(BinariesWin64)
        /\ SubSeq(d, Len(d) - Len(BinariesWin64) + 1, Len(d)) = BinariesWin64

\* game_dir.glob("**/Binaries/Win64") and
\* game_dir.glob("WindowsNoEditor/**/Binaries/Win64"), directories only
Win64Dirs(gd, t, subs) ==
    {d \in SubDirs : DirExists(gd, t, subs, d) /\ EndsInWin64(d)}
    \cup {d \in SubDirs : /\ DirExists(gd, t, subs, d) /\ EndsInWin64(d)
                          /\ d[1] = DeepWin64[1] /\ Len(d) > Len(BinariesWin64)}

\* a < b for paths below one directory: component by component
RECURSIVE PartsLess(_, _)
PartsLess(a, b) ==
    IF b = <<>> THEN FALSE
    ELSE IF a = <<>> THEN TRUE
    ELSE IF a[1] = b[1] THEN PartsLess(Tail(a), Tail(b))
    ELSE StrLess(a[1], b[1])

\* sorted(win64_dirs)
RECURSIVE SortedDirs(_)
SortedDirs(ds) ==
    IF ds = {} THEN <<>>
    ELSE LET least == CHOOSE d \in ds : \A e \in ds \ {d} : PartsLess(d, e)
         IN  <<least>> \o SortedDirs(ds \ {least})

\* the loop over the Binaries/Win64 directories, inside try/except: the
\* first copy that fails ends the loop and nothing is reported
RECURSIVE CopyToWin64(_, _, _, _, _, _)
CopyToWin64(dirs, src, ov, lck, copied, failed) ==
    IF dirs = <<>> THEN [overlay |-> ov, copied |-> copied, failed |-> failed]
    ELSE LET d == Head(dirs)
             c == CopyDlls(src, ov[d], d \in lck)
             ov1 == [ov EXCEPT ![d] = c.files]
         IN  IF c.ok
             THEN CopyToWin64(Tail(dirs), src, ov1, lck, copied \cup CopiedInto(d, c.n), failed)
             ELSE [overlay |-> ov1, copied |-> copied \cup CopiedInto(d, c.n),
                   failed |-> failed \cup {d}]

\* patch_selected_game for a selected title: what it leaves on disk and what
\* it reports
Patch(g, src, t, gd, subs, lck, ov, ord, ds) ==
    LET m == MissingDll(src)
        root == CopyDlls(src, ov[<<>>], <<>> \in lck)
        ov1 == [ov EXCEPT ![<<>>] = root.files]
        rootCopied == CopiedInto(<<>>, root.n)
        found == DetectExe(g, t, TRUE, ord, ds)
        exeDir == found.path.dir
        toExeDir == found.path # NoExe /\ exeDir # <<>>
                        /\ DirExists(TRUE, t, subs, exeDir)
        sub == CopyDlls(src, ov1[exeDir], exeDir \in lck)
        ov2 == IF toExeDir THEN [ov1 EXCEPT ![exeDir] = sub.files] ELSE ov1
        subCopied == IF toExeDir THEN rootCopied \cup CopiedInto(exeDir, sub.n)
                     ELSE rootCopied
        win == CopyToWin64(SortedDirs(Win64Dirs(TRUE, t, subs)), src, ov2, lck,
                           subCopied, {})
    IN  IF m # 0
        THEN [gameDir |-> gd, overlay |-> ov,
              res |-> [status |-> "missing", warnings |-> <<DXVK_DLLS[m]>>,
                       copied |-> {}, failed |-> {}, created |-> FALSE, exe |-> NoExe, runs |-> 0]]
        ELSE IF ~root.ok
        THEN [gameDir |-> TRUE, overlay |-> ov1,
              res |-> [status |-> "raised", warnings |-> <<>>, copied |-> rootCopied,
                       failed |-> {<<>>}, created |-> ~gd, exe |-> NoExe, runs |-> 0]]
        ELSE IF found.raised
        THEN [gameDir |-> TRUE, overlay |-> ov1,
              res |-> [status |-> "raised", warnings |-> <<>>, copied |-> rootCopied,
                       failed |-> {}, created |-> ~gd, exe |-> NoExe, runs |-> 0]]
        ELSE IF toExeDir /\ ~sub.ok
        THEN [gameDir |-> TRUE, overlay |-> ov2,
              res |-> [status |-> "raised", warnings |-> <<>>, copied |-> subCopied,
                       failed |-> {exeDir}, created |-> ~gd, exe |-> found.path, runs |-> 0]]
        ELSE [gameDir |-> TRUE, overlay |-> win.overlay,
              res |-> [status |-> "patched", warnings |-> <<>>, copied |-> win.copied,
                       failed |-> win.failed, created |-> ~gd, exe |-> found.path, runs |-> 0]]

-----------------------------------------------------------------------------
(* The overlay and the install tree it is placed in: DXVK is built, a      *)
(* source file is lost, the title is installed and removed, directories    *)
(* are made and turn read-only, and patch_selected_game is called.         *)

TreeWith(p, st) == [q \in ExePaths |-> IF q = p THEN st ELSE Absent]

\* the install trees a title comes with: no executable; Foo.exe in the root;
\* the shipping build in Binaries/Win64; a dangling Game.exe in the root;
\* Foo.exe in the root beside a larger GameShipping.exe in Binaries/Win32
PatchTrees ==
    { [q \in ExePaths |-> Absent],
      [TreeWith(ExePath(<<>>, <<"F","o","o",".","e","x","e">>), File(1))
          EXCEPT ![ExePath(BinariesWin32, <<"G","a","m","e","S","h","i","p","p","i","n","g",".","e","x","e">>)] = File(2)],
      TreeWith(ExePath(<<>>, <<"F","o","o",".","e","x","e">>), File(1)),
      TreeWith(ExePath(BinariesWin64, <<"F","o","o","-","W","i","n","6","4","-","S","h","i","p","p","i","n","g",".","e","x","e">>), File(1)),
      TreeWith(ExePath(<<>>, <<"G","a","m","e",".","e","x","e">>), Dangling) }

LockableDirs == {<<>>, BinariesWin64}

MaxRuns == 2

ForgetPatch == patch' = NoPatch

InstallTitle(t) ==
    /\ ~gameDir
    /\ gameDir' = TRUE
    /\ dirRemoved' = FALSE
    /\ tree' = t
    /\ ForgetPatch
    /\ UNCHANGED <<exeCall, exe, sources, subdirs, locked, overlay,
                   varsNotPatch>>

UninstallTitle ==
    /\ gameDir
    /\ gameDir' = FALSE
    /\ dirRemoved' = TRUE
    /\ tree' = [p \in ExePaths |-> Absent]
    /\ subdirs' = {}
    /\ locked' = {}
    /\ overlay' = [d \in TreeDirs |-> NoOverlay]
    /\ ForgetPatch
    /\ UNCHANGED <<exeCall, exe, sources, varsNotPatch>>

MakeSubdir(d) ==
    /\ gameDir
    /\ d \notin subdirs
    /\ subdirs' = subdirs \cup {d}
    /\ ForgetPatch
    /\ UNCHANGED <<varsExe, sources, locked, overlay, varsNotPatch>>

Lock(d) ==
    /\ locked = {}
    /\ DirExists(gameDir, tree, subdirs, d)
    /\ locked' = {d}
    /\ ForgetPatch
    /\ UNCHANGED <<varsExe, sources, subdirs, overlay, varsNotPatch>>

Unlock(d) ==
    /\ d \in locked
    /\ locked' = locked \ {d}
    /\ ForgetPatch
    /\ UNCHANGED <<varsExe, sources, subdirs, overlay, varsNotPatch>>

\* build_dxvk's pipeline has installed a build into dxvk_install/bin
BuildDxvk(b) ==
    /\ sources # [dll \in Range(DXVK_DLLS) |-> b]
    /\ sources' = [dll \in Range(DXVK_DLLS) |-> b]
    /\ ForgetPatch
    /\ UNCHANGED <<varsExe, subdirs, locked, overlay, varsNotPatch>>

RemoveSource(dll) ==
    /\ \A other \in Range(DXVK_DLLS) : sources[other] # NoContent
    /\ sources' = [sources EXCEPT ![dll] = NoContent]
    /\ ForgetPatch
    /\ UNCHANGED <<varsExe, subdirs, locked, overlay, varsNotPatch>>

NoSelection == [NoPatch EXCEPT !.status = "noSelection",
                               !.warnings = <<"Select a game first.">>]

\* patch.runs counts the calls made in succession, with nothing else
\* writing in between
PatchSelectedGame ==
    \E selected \in BOOLEAN : \E ord \in EnumOrders : \E ds \in 1..MaxSize :
        LET done == Patch(TheGame, sources, tree, gameDir, subdirs, locked, overlay, ord, ds)
        IN  /\ patch.runs < MaxRuns
            /\ patch' = IF selected THEN [done.res EXCEPT !.runs = patch.runs + 1]
                        ELSE [NoSelection EXCEPT !.runs = patch.runs + 1]
            /\ gameDir' = IF selected THEN done.gameDir ELSE gameDir
            /\ overlay' = IF selected THEN done.overlay ELSE overlay
            /\ UNCHANGED <<dirRemoved, tree, exeCall, exe, sources, subdirs, locked,
                           varsNotPatch>>

InitPatch ==
    /\ InitPathVars
    /\ InitLibVars
    /\ InitExeVars
    /\ InitAppVars

NextPatch ==
    \/ \E t \in PatchTrees : InstallTitle(t)
    \/ UninstallTitle
    \/ \E d \in SubDirs : MakeSubdir(d)
    \/ \E d \in LockableDirs : Lock(d)
    \/ \E d \in LockableDirs : Unlock(d)
    \/ \E b \in Builds : BuildDxvk(b)
    \/ \E dll \in Range(DXVK_DLLS) : RemoveSource(dll)
    \/ PatchSelectedGame

SpecPatch == InitPatch /\ [][NextPatch]_vars

\* the last call was patch_selected_game for a selected title
PatchCalled == patch.status \in {"missing", "raised", "patched"}

\* C11: when an overlay source file is absent, patch_selected_game copies
\* no file to any directory, creates no directory, and reports exactly one
\* error, which names a missing file.
C11_MissingSourceNoCopy ==
    (PatchCalled /\ \E dll \in Range(DXVK_DLLS) : sources[dll] = NoContent) =>
        /\ patch.status = "missing"
        /\ patch.copied = {}
        /\ ~patch.created
        /\ Len(patch.warnings) = 1
        /\ sources[patch.warnings[1]] = NoContent

C11_Witness ==
    /\ patch.status = "missing"
    /\ sources[DXVK_DLLS[1]] # NoContent
    /\ patch.warnings = <<DXVK_DLLS[2]>>
    /\ ~gameDir

\* C12: a second patch_selected_game in succession, with the sources and
\* the tree as the first run left them, changes nothing: every directory of
\* the install tree holds after it what it held before it.
C12_SecondRunChangesNothing ==
    [][(patch.runs >= 1 /\ patch'.runs = patch.runs + 1 /\ PatchCalled /\ PatchCalled')
          => (overlay' = overlay /\ gameDir' = gameDir /\ subdirs' = subdirs /\ tree' = tree)]_vars

C12_Witness ==
    /\ patch.runs = 2
    /\ patch.status = "patched"
    /\ BinariesWin64 \in patch.failed \/ Cardinality(patch.copied) > Len(DXVK_DLLS)

\* the directories patch_selected_game is to fill: the install directory,
\* the directory of the executable, every directory ending in Binaries/Win64
RequiredDirs ==
    {<<>>} \cup (IF patch.exe # NoExe THEN {patch.exe.dir} ELSE {})
           \cup {d \in SubDirs : DirExists(gameDir, tree, subdirs, d) /\ EndsInWin64(d)}

\* C13: after patch_selected_game has completed without error, every
\* overlay file is in the install directory, in the directory of the
\* resolved executable and in every Binaries/Win64 directory, with the
\* content of its source.
C13_OverlayEverywhere ==
    patch.status = "patched" => \A d \in RequiredDirs : overlay[d] = sources

\* C14: when a copy into a target directory fails, patch_selected_game ends
\* with an error and does not report the title as patched.
C14_CopyFailureSurfaced ==
    (PatchCalled /\ patch.failed # {}) => patch.status = "raised"

-----------------------------------------------------------------------------
(* MainWindow._latest_dxvk_log_for_game                                    *)

StartsWith(s, pre) == Len(s) >= Len(pre) /\ SubSeq(s, 1, Len(pre)) = pre

D3d11Suffix == <<"_","d","3","d","1","1",".","l","o","g">>

\* logs_dir.glob(pre + "*" + suf)
GlobMatch(name, pre, suf) ==
    /\ Len(name) >= Len(pre) + Len(suf)
    /\ StartsWith(name, pre)
    /\ EndsWith(name, suf)

\* the patterns tried for a title, in order: a pattern is the text before
\* the star and the text after it, or a whole name
Whole(n) == [star |-> FALSE, pre |-> n, suf |-> <<>>]
Star(pre, suf) == [star |-> TRUE, pre |-> pre, suf |-> suf]

LogPatterns(g) ==
    << Whole(g.install_dir_name \o D3d11Suffix),
       Whole(StripSpaces(g.install_dir_name) \o D3d11Suffix),
       Whole(g.name \o D3d11Suffix),
       Whole(StripSpaces(g.name) \o D3d11Suffix),
       Star(g.install_dir_name, D3d11Suffix),
       Star(StripSpaces(g.name), D3d11Suffix),
       Star(g.name, D3d11Suffix) >>

Matches(name, pat) ==
    IF pat.star THEN GlobMatch(name, pat.pre, pat.suf) ELSE name = pat.pre

\* logs_dir.glob(pat): the files there that match, in listing order
GlobLogs(lg, ord, pat) ==
    LET Hit(n) == lg[n] # 0 /\ Matches(n, pat)
    IN  SelectSeq(ord, Hit)

RECURSIVE AllMatches(_, _, _, _)
AllMatches(lg, ord, pats, i) ==
    IF i > Len(pats) THEN <<>>
    ELSE GlobLogs(lg, ord, pats[i]) \o AllMatches(lg, ord, pats, i + 1)

\* uniq[str(p)] = p: every path once, at the place of its first occurrence
RECURSIVE Dedup(_, _)
Dedup(ps, seen) ==
    IF ps = <<>> THEN <<>>
    ELSE IF Head(ps) \in seen THEN Dedup(Tail(ps), seen)
    ELSE <<Head(ps)>> \o Dedup(Tail(ps), seen \cup {Head(ps)})

\* the candidate list: the matches of the title's patterns, or any d3d11
\* log when there is none
Candidates(g, lg, ord) ==
    LET strong == AllMatches(lg, ord, LogPatterns(g), 1)
    IN  Dedup(IF strong # <<>> THEN strong ELSE GlobLogs(lg, ord, Star(<<>>, D3d11Suffix)),
              {})

\* the window before the launch in which a log still counts as written by it
Tolerance == 5

\* a list left in the order the directory listed it
NewestFirst_Unsorted(ps, mtime) == ps

\* sort(key = st_mtime, reverse=True)
NewestFirst(ps, mtime) == SortDesc(ps, mtime)

\* a lookup that takes the oldest of the logs that pass the filter
LatestDxvkLog_OldestRecent(g, dirExists, lg, ts, ord) ==
    LET cands == Candidates(g, lg, ord)
        Recent(p) == lg[p] >= ts[g.appid] - Tolerance
        recent == IF g.appid \in DOMAIN ts THEN SelectSeq(cands, Recent) ELSE <<>>
    IN  IF ~dirExists THEN NoLog
        ELSE IF cands = <<>> THEN NoLog
        ELSE IF recent # <<>> THEN NewestFirst(recent, lg)[Len(recent)]
        ELSE NewestFirst(cands, lg)[1]

\* _latest_dxvk_log_for_game(game)
LatestDxvkLog(g, dirExists, lg, ts, ord) ==
    LET cands == Candidates(g, lg, ord)
        Recent(p) == lg[p] >= ts[g.appid] - Tolerance
        recent == IF g.appid \in DOMAIN ts THEN SelectSeq(cands, Recent) ELSE <<>>
    IN  IF ~dirExists THEN NoLog
        ELSE IF cands = <<>> THEN NoLog
        ELSE IF recent # <<>> THEN NewestFirst(recent, lg)[1]
        ELSE NewestFirst(cands, lg)[1]

-----------------------------------------------------------------------------
(* ~/dxvk-logs and the launch times: logs are written, a launch is         *)
(* recorded, and the newest log of the title is asked for.                 *)

MaxTime == 7

LogOrders == {LogNames, Reverse(LogNames)}

MakeLogsDir ==
    /\ ~logsDir
    /\ logsDir' = TRUE
    /\ logFound' = NoLogFound
    /\ UNCHANGED <<logs, launchTs, varsNotLog>>

\* a log is written, or written again, at time t
WriteLog(n, t) ==
    /\ logsDir
    /\ logs[n] # t
    /\ logs' = [logs EXCEPT ![n] = t]
    /\ logFound' = NoLogFound
    /\ UNCHANGED <<logsDir, launchTs, varsNotLog>>

\* last_game_launch_ts[game.appid] = time.time()
RecordLaunch(now) ==
    /\ launchTs' = [a \in {TheGame.appid} |-> now]
    /\ launchTs' # launchTs
    /\ logFound' = NoLogFound
    /\ UNCHANGED <<logsDir, logs, varsNotLog>>

CallLatestDxvkLog ==
    /\ ~logFound.called
    /\ \E ord \in LogOrders :
          logFound' = [called |-> TRUE,
                       path |-> LatestDxvkLog(TheGame, logsDir, logs, launchTs, ord)]
    /\ UNCHANGED <<logsDir, logs, launchTs, varsNotLog>>

\* the title's own logs are written at any time, the others last
WriteTimes(n) ==
    IF \E i \in DOMAIN LogPatterns(TheGame) : Matches(n, LogPatterns(TheGame)[i])
    THEN 1..MaxTime ELSE {MaxTime}

InitLog ==
    /\ InitPathVars
    /\ InitLibVars
    /\ InitExeVars
    /\ InitAppVars

NextLog ==
    \/ MakeLogsDir
    \/ \E n \in Range(LogNames) : \E t \in WriteTimes(n) : WriteLog(n, t)
    \/ \E now \in 1..MaxTime : RecordLaunch(now)
    \/ CallLatestDxvkLog

SpecLog == InitLog /\ [][NextLog]_vars

\* the logs that are candidates for the title: those its name patterns
\* match, or every d3d11 log when they match none
IsTitleLog(n) == \E i \in DOMAIN LogPatterns(TheGame) : Matches(n, LogPatterns(TheGame)[i])
LogPool ==
    LET there == {n \in Range(LogNames) : logsDir /\ logs[n] # 0}
        strong == {n \in there : IsTitleLog(n)}
    IN  IF strong # {} THEN strong ELSE {n \in there : EndsWith(n, D3d11Suffix)}

RecentPool ==
    IF TheGame.appid \in DOMAIN launchTs
    THEN {n \in LogPool : logs[n] >= launchTs[TheGame.appid] - Tolerance}
    ELSE {}

NewestOf(S, n) == n \in S /\ \A q \in S : logs[q] <= logs[n]

-----------------------------------------------------------------------------
(* MainWindow.run_commands, CommandWorker.run and the signals between the  *)
(* worker thread and the UI thread                                         *)
(*                                                                         *)
(* A QThread is "running" while its worker runs the commands, "idle" when  *)
(* the worker has emitted finished, "quitting" once quit() was called on   *)
(* it, "finishing" once it has emitted its own finished signal, "stopped"  *)
(* when isRunning() is false, and "deleted" when deleteLater has destroyed *)
(* the object. A signal emitted in the worker thread reaches a slot of the *)
(* UI thread as an event posted to the UI thread's queue.                  *)

\* QThread.isRunning()
IsRunning(th) == th \in {"running", "idle", "quitting", "finishing"}

Event(k, t, ok) == [kind |-> k, thread |-> t, ok |-> ok]

UnusedThreads(ths) == {t \in ThreadIds : ths[t] = "unused"}

\* QThread(...) followed by start(): the thread made, and the handles kept
StartThread(ths) ==
    LET t == CHOOSE u \in UnusedThreads(ths) : \A v \in UnusedThreads(ths) : u <= v
    IN  [threads |-> [ths EXCEPT ![t] = "running"], workerThread |-> t, worker |-> t,
         runResult |-> "started"]

Kept(ths, wt, w, result) ==
    [threads |-> ths, workerThread |-> wt, worker |-> w, runResult |-> result]

\* run_commands of MacNCheese.py
RunCommands(ths, wt, w) ==
    IF wt # 0 /\ ths[wt] # "deleted" /\ IsRunning(ths[wt])
    THEN Kept(ths, wt, w, "rejected")
    ELSE StartThread(ths)

\* run_commands of MacNdCheese.py: isRunning() on a destroyed QThread raises
RunCommandsNd(ths, wt, w) ==
    IF wt # 0 /\ ths[wt] = "deleted" THEN Kept(ths, wt, w, "raised")
    ELSE IF wt # 0 /\ IsRunning(ths[wt]) THEN Kept(ths, wt, w, "rejected")
    ELSE StartThread(ths)

Pending(kind) == {i \in DOMAIN mainQueue : mainQueue[i].kind = kind}

\* the user asks for a task: the click waits in the queue of the UI thread
UserClick ==
    /\ ~shutdown.closed
    /\ Cardinality(Pending("run_commands")) < Cardinality(UnusedThreads(threads))
    /\ mainQueue' = Append(mainQueue, Event("run_commands", 0, TRUE))
    /\ UNCHANGED <<variant, workerThread, worker, threads, runResult, varsProc, varsNotTask>>

NextEvent(kind) ==
    /\ ~shutdown.closed
    /\ mainQueue # <<>>
    /\ Head(mainQueue).kind = kind

HandleRunCommands ==
    /\ NextEvent("run_commands")
    /\ LET r == IF variant = "MacNCheese"
                THEN RunCommands(threads, workerThread, worker)
                ELSE RunCommandsNd(threads, workerThread, worker)
       IN  /\ threads' = r.threads
           /\ workerThread' = r.workerThread
           /\ worker' = r.worker
           /\ runResult' = r.runResult
    /\ mainQueue' = Tail(mainQueue)
    /\ UNCHANGED <<variant, varsProc, varsNotTask>>

\* CommandWorker.run returns: finished(ok, message) goes to
\* on_worker_finished and to QThread.quit, both in the UI thread
WorkerFinished(t, ok) ==
    /\ ~shutdown.closed
    /\ threads[t] = "running"
    /\ threads' = [threads EXCEPT ![t] = "idle"]
    /\ mainQueue' = mainQueue \o <<Event("on_worker_finished", t, ok), Event("quit", t, ok)>>
    /\ UNCHANGED <<variant, workerThread, worker, runResult, varsProc, varsNotTask>>

HandleOnWorkerFinished ==
    /\ NextEvent("on_worker_finished")
    /\ mainQueue' = Tail(mainQueue)
    /\ runResult' = IF Head(mainQueue).ok THEN "done" ELSE "failed"
    /\ UNCHANGED <<variant, workerThread, worker, threads, varsProc, varsNotTask>>

HandleQuit ==
    /\ NextEvent("quit")
    /\ mainQueue' = Tail(mainQueue)
    /\ threads' = [threads EXCEPT ![Head(mainQueue).thread] = "quitting"]
    /\ UNCHANGED <<variant, workerThread, worker, runResult, varsProc, varsNotTask>>

\* the thread leaves its event loop and emits QThread.finished: _cleanup
\* (MacNCheese.py only) and deleteLater are posted to the UI thread
ThreadFinish(t) ==
    /\ ~shutdown.closed
    /\ threads[t] = "quitting"
    /\ threads' = [threads EXCEPT ![t] = "finishing"]
    /\ mainQueue' = mainQueue
                    \o (IF variant = "MacNCheese" THEN <<Event("cleanup", t, TRUE)>> ELSE <<>>)
                    \o <<Event("deleteLater", t, TRUE)>>
    /\ UNCHANGED <<variant, workerThread, worker, runResult, varsProc, varsNotTask>>

\* the thread ends: isRunning() is false from here on
ThreadStop(t) ==
    /\ ~shutdown.closed
    /\ threads[t] = "finishing"
    /\ threads' = [threads EXCEPT ![t] = "stopped"]
    /\ UNCHANGED <<variant, workerThread, worker, mainQueue, runResult, varsProc, varsNotTask>>

\* _cleanup of run_commands
HandleCleanup ==
    /\ NextEvent("cleanup")
    /\ mainQueue' = Tail(mainQueue)
    /\ workerThread' = 0
    /\ worker' = 0
    /\ UNCHANGED <<variant, threads, runResult, varsProc, varsNotTask>>

\* deleteLater of the QThread: its destructor waits for a thread that is
\* still finishing
HandleDeleteLater ==
    /\ NextEvent("deleteLater")
    /\ threads[Head(mainQueue).thread] = "stopped"
    /\ mainQueue' = Tail(mainQueue)
    /\ threads' = [threads EXCEPT ![Head(mainQueue).thread] = "deleted"]
    /\ UNCHANGED <<variant, workerThread, worker, runResult, varsProc, varsNotTask>>

-----------------------------------------------------------------------------
(* MainWindow.launch_steam, the life of a QProcess, MainWindow.closeEvent *)

\* a test that takes a process that is still starting for one not running
AlreadyRunning_RunningOnly(ps, h) == h # 0 /\ ps[h].state = "Running"

\* proc and proc.state() != QProcess.ProcessState.NotRunning
AlreadyRunning(ps, h) == h # 0 /\ ps[h].state # "NotRunning"

FreeProcs(ps) == {p \in ProcIds : ps[p].kind = "none"}

\* QProcess(self) followed by start()
NewProc(ps) == CHOOSE p \in FreeProcs(ps) : \A q \in FreeProcs(ps) : p <= q

Started(ps, kind) == [ps EXCEPT ![NewProc(ps)] = [kind |-> kind, state |-> "Starting"]]

\* launch_steam; wine and steamExe say whether the wine binary and
\* steam.exe are found
LaunchSteam ==
    \E wine \in BOOLEAN, steamExe \in BOOLEAN :
        LET outcome == IF ~wine THEN "noWine"
                       ELSE IF ~steamExe THEN "notInstalled"
                       ELSE IF AlreadyRunning(procs, steamProcess) THEN "rejected"
                       ELSE "started"
        IN  /\ ~shutdown.closed
            /\ outcome = "started" => FreeProcs(procs) # {}
            /\ launch' = [call |-> "steam", outcome |-> outcome]
            /\ procs' = IF outcome = "started" THEN Started(procs, "steam") ELSE procs
            /\ steamProcess' = IF outcome = "started" THEN NewProc(procs) ELSE steamProcess
            /\ UNCHANGED <<gameProcess, wineLog, shutdown, varsWorker, varsNotTask>>

ProcStarted(p) ==
    /\ ~shutdown.closed
    /\ procs[p].state = "Starting"
    /\ procs' = [procs EXCEPT ![p].state = "Running"]
    /\ launch' = NoLaunch
    /\ UNCHANGED <<steamProcess, gameProcess, wineLog, shutdown, varsWorker, varsNotTask>>

\* the process fails to start, or exits
ProcEnded(p) ==
    /\ ~shutdown.closed
    /\ procs[p].state \in {"Starting", "Running"}
    /\ procs' = [procs EXCEPT ![p].state = "NotRunning"]
    /\ launch' = NoLaunch
    /\ UNCHANGED <<steamProcess, gameProcess, wineLog, shutdown, varsWorker, varsNotTask>>

\* the external processes the application has started and that are alive:
\* those of its QProcess objects and those of its command pipelines
LiveProcesses ==
    {<<"QProcess", p>> : p \in {q \in ProcIds : procs[q].state # "NotRunning"}}
    \cup {<<"pipeline", t>> : t \in {u \in ThreadIds : threads[u] = "running"}}

\* closeEvent: kill() and waitForFinished(2000) for game_process and
\* steam_process; a killed process has exited within the wait, or has not
CloseEvent ==
    \E exited \in SUBSET {gameProcess, steamProcess} :
        LET killed == {h \in {gameProcess, steamProcess} : AlreadyRunning(procs, h)}
        IN  /\ ~shutdown.closed
            /\ exited \subseteq killed
            /\ procs' = [p \in ProcIds |->
                            IF p \in exited THEN [procs[p] EXCEPT !.state = "NotRunning"]
                            ELSE procs[p]]
            /\ shutdown' = [closed |-> TRUE,
                            signalled |-> {<<"QProcess", p>> : p \in killed},
                            live |-> LiveProcesses]
            /\ UNCHANGED <<steamProcess, gameProcess, wineLog, launch, varsWorker, varsNotTask>>

InitWorker ==
    /\ InitPathVars
    /\ InitLibVars
    /\ InitExeVars
    /\ InitPatchVars
    /\ InitLogVars
    /\ variant \in Variants
    /\ InitWorkerVars
    /\ InitProcVars
    /\ InitEndVars

NextWorker ==
    \/ UserClick
    \/ HandleRunCommands
    \/ \E t \in ThreadIds, ok \in BOOLEAN : WorkerFinished(t, ok)
    \/ HandleOnWorkerFinished
    \/ HandleQuit
    \/ \E t \in ThreadIds : ThreadFinish(t)
    \/ \E t \in ThreadIds : ThreadStop(t)
    \/ HandleCleanup
    \/ HandleDeleteLater
    \/ LaunchSteam
    \/ \E p \in ProcIds : ProcStarted(p)
    \/ \E p \in ProcIds : ProcEnded(p)
    \/ CloseEvent

SpecWorker == InitWorker /\ [][NextWorker]_vars

\* the pipeline of thread t is in flight
InFlight(t) == threads[t] = "running"

\* C16: at most one command pipeline is in flight at any time, and the
\* handle of a thread whose pipeline is in flight is never cleared by the
\* cleanup of an earlier thread.
C16_OnePipelineInFlight ==
    /\ Cardinality({t \in ThreadIds : InFlight(t)}) <= 1
    /\ \A t \in ThreadIds : InFlight(t) => workerThread = t

\* C19: once closeEvent has run, every external process of the
\* application that was alive when it ran has been sent a termination
\* signal.
C19_AllLiveSignalled ==
    shutdown.closed => shutdown.live \subseteq shutdown.signalled

-----------------------------------------------------------------------------
(* MainWindow.launch_selected_game                                         *)

Digits == {"0","1","2","3","4","5","6","7","8","9"}

\* [A-Za-z0-9._-]
IsSafeChar(c) == IsLetter(c) \/ c \in Digits \/ c \in {".", "_", "-"}

\* re.sub(r"[^A-Za-z0-9._-]+", "_", s): each run of other characters
\* becomes one underscore
RECURSIVE SafeName(_)
SafeName(s) ==
    IF s = <<>> THEN <<>>
    ELSE IF IsSafeChar(Head(s)) THEN <<Head(s)>> \o SafeName(Tail(s))
    ELSE IF Len(s) > 1 /\ ~IsSafeChar(s[2]) THEN SafeName(Tail(s))
    ELSE <<"_">> \o SafeName(Tail(s))

WineLogSuffix == <<"-","w","i","n","e",".","l","o","g">>

\* Path.home() / f"{safe_name}-wine.log", as its file name
HostWineLog(g) ==
    SafeName(IF g.install_dir_name # <<>> THEN g.install_dir_name ELSE g.name) \o WineLogSuffix

\* time.time() at a launch: later than the launch recorded before
NextTime(ts, appid) == IF appid \in DOMAIN ts THEN ts[appid] + 1 ELSE 1

\* dict[appid] = v
Put(table, appid, v) == [a \in DOMAIN table \cup {appid} |-> IF a = appid THEN v ELSE table[a]]

\* the catalog: the title whose install tree is followed, and a title whose
\* manifest is there while its install directory is not
OtherGame == GameEntry(<<"2","0">>, <<"O","t","h","e","r">>, <<"O","t","h","e","r">>, SteamDir)

Catalog == {TheGame, OtherGame}

TreeOf(g) == IF g = TheGame THEN tree ELSE [p \in ExePaths |-> Absent]
DirOf(g) == g = TheGame /\ gameDir

ShippingTail == <<"S","h","i","p","p","i","n","g",".","e","x","e">>

AnyShippingNames == {n \in ExeNames : EndsWith(n, ShippingTail)}

\* game.game_dir.glob("**/*Shipping.exe")
GlobAnyShipping(t, ord) ==
    LET Match(p) == Listed(t, p) /\ p.name \in AnyShippingNames
    IN  SelectSeq(ord, Match)

\* the executable the launch settles on: the largest *Shipping.exe of the
\* tree if there is one, else the one detect_exe resolved
FinalExe(found, t, ord, ds) ==
    LET sizeOf == [p \in DOMAIN t |-> IF EntryExists(t, p) THEN StatSize(t, ds, p) ELSE 0]
        shipping == SortDesc(GlobAnyShipping(t, ord), sizeOf)
    IN  IF shipping # <<>> THEN shipping[1] ELSE found

\* a launch that does not look at the host process
EarlyOutcome_NoHostCheck(g, wine, found, ps, steam) ==
    IF g = NoGame THEN "noSelection"
    ELSE IF ~wine THEN "noWine"
    ELSE IF found.raised THEN "raised"
    ELSE IF found.path = NoExe THEN "noExe"
    ELSE "patch"

\* how launch_selected_game ends before the overlay is placed, or "patch"
\* when it goes on to place it
EarlyOutcome(g, wine, found, ps, steam) ==
    IF g = NoGame THEN "noSelection"
    ELSE IF ~wine THEN "noWine"
    ELSE IF found.raised THEN "raised"
    ELSE IF found.path = NoExe THEN "noExe"
    ELSE IF ~AlreadyRunning(ps, steam) THEN "steamNotRunning"
    ELSE "patch"

NotPatched == [gameDir |-> FALSE, overlay |-> <<>>, res |-> NoPatch]

\* launch_selected_game for the selection g (NoGame: nothing is selected):
\* what the call finds decides how it ends; the overlay is placed before the
\* running title process is looked at
LaunchGame(g, wine, ord, ds) ==
    \E found \in {DetectExe(g, TreeOf(g), DirOf(g), ord, ds)} :
    \E early \in {EarlyOutcome(g, wine, found, procs, steamProcess)} :
    \E done \in {IF early = "patch"
                 THEN Patch(g, sources, tree, gameDir, subdirs, locked, overlay, ord, ds)
                 ELSE NotPatched} :
        LET outcome == IF early # "patch" THEN early
                       ELSE IF done.res.status = "raised" THEN "raised"
                       ELSE IF AlreadyRunning(procs, gameProcess) THEN "rejected"
                       ELSE "started"
            patched == early = "patch"
            starts == outcome = "started"
        IN  /\ ~shutdown.closed
            /\ starts => FreeProcs(procs) # {} /\ NextTime(launchTs, g.appid) <= MaxTime
            /\ launch' = [call |-> "game", outcome |-> outcome]
            /\ patch' = IF patched THEN [done.res EXCEPT !.runs = 1] ELSE patch
            /\ gameDir' = IF patched THEN done.gameDir ELSE gameDir
            /\ overlay' = IF patched THEN done.overlay ELSE overlay
            /\ procs' = IF starts THEN Started(procs, "game") ELSE procs
            /\ gameProcess' = IF starts THEN NewProc(procs) ELSE gameProcess
            /\ launched' = IF starts
                           THEN [launched EXCEPT ![NewProc(procs)] =
                                    [game |-> g, exe |-> FinalExe(found.path, tree, ord, ds)]]
                           ELSE launched
            /\ logsDir' = IF starts THEN TRUE ELSE logsDir
            /\ launchTs' = IF starts
                           THEN Put(launchTs, g.appid, NextTime(launchTs, g.appid))
                           ELSE launchTs
            /\ wineLog' = IF starts THEN Put(wineLog, g.appid, HostWineLog(g))
                          ELSE wineLog
            /\ UNCHANGED <<dirRemoved, tree, exeCall, exe, sources, subdirs, locked,
                           logs, logFound, steamProcess, shutdown, run, selection, shown,
                           varsWorker, varsScan>>

\* the button is pressed with the title selected, or with nothing selected
LaunchSelectedGame ==
    \E g \in {TheGame, NoGame}, wine \in BOOLEAN : \E ord \in EnumOrders : \E ds \in 1..MaxSize :
        LaunchGame(g, wine, ord, ds)

InitLaunch ==
    /\ InitPathVars
    /\ InitLibVars
    /\ InitExeVars
    /\ InitAppVars

NextLaunch ==
    \/ \E t \in PatchTrees : InstallTitle(t)
    \/ \E b \in Builds : BuildDxvk(b)
    \/ LaunchSteam
    \/ LaunchSelectedGame
    \/ \E p \in ProcIds : ProcStarted(p)
    \/ \E p \in ProcIds : ProcEnded(p)
    \/ CloseEvent

SpecLaunch == InitLaunch /\ [][NextLaunch]_vars

\* C17: every QProcess that is not in state NotRunning is the one its
\* handle names: a live Steam process is self.steam_process, a live title
\* process is self.game_process, so there is at most one of each.
C17_LiveProcessKeepsHandle ==
    \A p \in ProcIds :
        procs[p].state # "NotRunning" =>
            /\ procs[p].kind = "steam" => steamProcess = p
            /\ procs[p].kind = "game" => gameProcess = p

C17_Witness ==
    /\ launch = [call |-> "steam", outcome |-> "rejected"]
    /\ steamProcess # 0
    /\ procs[steamProcess].state = "Running"
    /\ gameProcess # 0
    /\ procs[gameProcess].state # "NotRunning"

\* C18: a launch_selected_game that is rejected because a title process is
\* running changes nothing: the process handle, the launch times, the log
\* paths and the install tree with its overlay files are as before.
C18_RejectedLaunchChangesNothing ==
    [][(launch' # launch /\ launch' = [call |-> "game", outcome |-> "rejected"])
          => /\ gameProcess' = gameProcess
             /\ launchTs' = launchTs
             /\ wineLog' = wineLog
             /\ overlay' = overlay
             /\ gameDir' = gameDir]_vars

-----------------------------------------------------------------------------
(* The tiers of detect_exe below the fast path: an install tree with        *)
(* entries in the root folder, one level down, at the deepest level the     *)
(* subtree scan reaches and one level below that.                           *)

\* a directory k levels below the install directory
Level(k) == [i \in 1..k |-> <<"d">>]

\* the entries this tree may hold, in the order the filesystem lists them
TierOrder ==
    << ExePath(<<>>, <<"F","o","o",".","e","x","e">>),
       ExePath(<<>>, <<"G","a","m","e",".","e","x","e">>),
       ExePath(<<>>, <<"s","e","t","u","p",".","e","x","e">>),
       ExePath(Level(1), <<"G","a","m","e",".","e","x","e">>),
       ExePath(Level(1), <<"G","a","m","e","S","h","i","p","p","i","n","g",".","e","x","e">>),
       ExePath(Level(1), <<"s","e","t","u","p",".","e","x","e">>),
       ExePath(Level(MaxGlobDepth), <<"G","a","m","e",".","e","x","e">>),
       ExePath(Level(MaxGlobDepth + 1), <<"G","a","m","e",".","e","x","e">>) >>

TierPaths == Range(TierOrder)

TierOrders == {TierOrder, Reverse(TierOrder)}

TierIndex(p) == CHOOSE i \in DOMAIN TierOrder : TierOrder[i] = p

\* an entry appears in the tree, in listing order
PlaceTierEntry(p, st) ==
    /\ gameDir
    /\ Cardinality({q \in TierPaths : tree[q] # Absent}) < MaxEntries
    /\ \A q \in TierPaths : TierIndex(q) >= TierIndex(p) => tree[q] = Absent
    /\ tree' = [tree EXCEPT ![p] = st]
    /\ ForgetExe
    /\ UNCHANGED <<gameDir, dirRemoved, varsPath, varsLibFs, varsLibOut, varsApp>>

\* the install directory is emptied
EmptyGameDir ==
    /\ gameDir
    /\ \E q \in TierPaths : tree[q] # Absent
    /\ tree' = [p \in TierPaths |-> Absent]
    /\ ForgetExe
    /\ UNCHANGED <<gameDir, dirRemoved, varsPath, varsLibFs, varsLibOut, varsApp>>

CallDetectExeTiers ==
    /\ exeCall = "none"
    /\ \E ord \in TierOrders : \E ds \in 1..MaxSize :
          exe' = DetectExe(TheGame, tree, gameDir, ord, ds)
    /\ exeCall' = "MacNCheese"
    /\ UNCHANGED <<tree, gameDir, dirRemoved, varsPath, varsLibFs, varsLibOut, varsApp>>

InitTiers ==
    /\ InitPathVars
    /\ InitLibVars
    /\ gameDir = FALSE
    /\ dirRemoved = FALSE
    /\ tree = [p \in TierPaths |-> Absent]
    /\ exeCall = "none"
    /\ exe = NoResult
    /\ InitAppVars

NextTiers ==
    \/ CreateGameDir
    \/ \E p \in TierPaths, st \in EntryStates : PlaceTierEntry(p, st)
    \/ EmptyGameDir
    \/ CallDetectExeTiers
    \/ ReturnExe

SpecTiers == InitTiers /\ [][NextTiers]_vars

\* the fast path found nothing: no entry of the tree is named *-Shipping.exe
FastPathNothing == \A p \in DOMAIN tree : Listed(tree, p) => ~EndsWith(p.name, ShippingSuffix)

\* regular files of the root folder with one of the four obvious names
ExactFile(p) ==
    /\ IsFile(tree, p)
    /\ p.dir = <<>>
    /\ \E i \in 1..4 : p.name = ExactNames(TheGame.install_dir_name, TheGame.name)[i]

\* a regular file below the root folder
SubtreeFile(p) == IsFile(tree, p) /\ p.dir # <<>> /\ EndsWith(p.name, DotExe)

\* C21: when the fast path finds nothing, detect_exe returns the first
\* existing regular file of the sequence exact-name root files, plausible
\* root executables by descending size, subtree executables: an exact-name
\* file wins over any root executable, a plausible root executable over
\* every subtree executable, and "not found" is returned only when the
\* sequence holds no regular file.
C21_FirstOfSequence ==
    (exeCall = "MacNCheese" /\ gameDir /\ FastPathNothing) =>
        /\ ~exe.raised
        /\ (\E p \in DOMAIN tree : ExactFile(p)) => ExactFile(exe.path)
        /\ ( /\ ~\E p \in DOMAIN tree : ExactFile(p)
             /\ \E p \in DOMAIN tree : PlausibleRootFile(p) ) =>
              /\ PlausibleRootFile(exe.path)
              /\ \A q \in DOMAIN tree :
                    PlausibleRootFile(q) => tree[q].size <= tree[exe.path].size
        /\ ( /\ ~\E p \in DOMAIN tree : ExactFile(p)
             /\ ~\E p \in DOMAIN tree : PlausibleRootFile(p) ) =>
              \/ exe.path = NoExe
              \/ SubtreeFile(exe.path)

\* a candidate of the subtree scan as the claim describes it: a regular
\* file one to seven levels down whose name passes the denylist
SubCandidate(p) ==
    /\ IsFile(tree, p)
    /\ Len(p.dir) \in 1..MaxGlobDepth
    /\ EndsWith(p.name, DotExe)
    /\ ~IsProbablyNotGame(p.name)

\* the shipping-build naming check of the fast path
ShippingBuild(p) == EndsWith(p.name, ShippingSuffix)

\* p is ranked no later than q: a shipping build before any other
\* candidate, and within each group the larger file first
RankedBefore(p, q) ==
    \/ ShippingBuild(p) /\ ~ShippingBuild(q)
    \/ ShippingBuild(p) = ShippingBuild(q) /\ tree[q].size <= tree[p].size

\* C22: with nothing from the fast path and no executable in the root
\* folder, detect_exe returns a candidate of the subtree scan that no other
\* candidate is ranked before: a file one to seven levels down that passes
\* the denylist, shipping builds first, larger files first; a file eight
\* levels down or a denylisted file is never returned.
C22_SubtreeRanking ==
    ( /\ exeCall = "MacNCheese"
      /\ gameDir
      /\ FastPathNothing
      /\ \A p \in DOMAIN tree : p.dir = <<>> => ~Listed(tree, p) ) =>
        /\ ~exe.raised
        /\ (exe.path = NoExe) <=> ~\E p \in DOMAIN tree : SubCandidate(p)
        /\ exe.path # NoExe =>
              /\ SubCandidate(exe.path)
              /\ \A q \in DOMAIN tree : SubCandidate(q) => RankedBefore(exe.path, q)

\* C24: when launch_selected_game has started the title process, with the
\* overlay sources in place, every overlay file is in the directory of the
\* executable the process was given, which is its working directory, also
\* when that executable is the Shipping executable the launch found itself.
C24_OverlayWhereLaunched ==
    [][(gameProcess' # gameProcess /\ MissingDll(sources) = 0)
          => \A dll \in Range(DXVK_DLLS) :
                overlay'[launched'[gameProcess'].exe.dir][dll] # NoContent]_vars

\* C28: a launch_selected_game requested while an overlay source file is
\* missing starts no title process, creates no process handle and records
\* no launch time.
C28_MissingSourceNoLaunch ==
    [][(launch' # launch /\ launch'.call = "game" /\ MissingDll(sources) # 0)
          => /\ procs' = procs
             /\ gameProcess' = gameProcess
             /\ launchTs' = launchTs]_vars

\* C29: a title process is started only by a call that finds the host
\* handle set and the host process not in state NotRunning; a call that
\* finds the host never started, or exited, is rejected and neither places
\* the overlay nor records a launch time.
C29_HostMustRun ==
    [][/\ gameProcess' # gameProcess => AlreadyRunning(procs, steamProcess)
       /\ (launch' # launch /\ launch'.call = "game" /\ ~AlreadyRunning(procs, steamProcess))
            => /\ launch'.outcome \in {"noSelection", "noWine", "raised", "noExe", "steamNotRunning"}
               /\ overlay' = overlay
               /\ gameDir' = gameDir
               /\ launchTs' = launchTs
               /\ gameProcess' = gameProcess
               /\ procs' = procs]_vars

\* a launch rejected because the host process has exited, with the sources
\* built and the title installed: nothing was placed
C29_Witness ==
    /\ launch = [call |-> "game", outcome |-> "steamNotRunning"]
    /\ steamProcess # 0
    /\ procs[steamProcess].state = "NotRunning"
    /\ MissingDll(sources) = 0
    /\ gameDir
    /\ overlay[<<>>] = NoOverlay

-----------------------------------------------------------------------------
(* CommandWorker.run: the commands of a pipeline are started one after the  *)
(* other; each cannot be started, or runs and writes output that can or     *)
(* cannot be decoded, and exits with a code.                                *)

MaxCmds == 3

MaxCode == 2

\* what a command does when it is its turn
Fails == [starts |-> FALSE, readable |-> FALSE, rc |-> 0]
Garbles == [starts |-> TRUE, readable |-> FALSE, rc |-> 0]
Exits(rc) == [starts |-> TRUE, readable |-> TRUE, rc |-> rc]

Commands == {Fails, Garbles} \cup {Exits(rc) : rc \in 0..MaxCode}

Pipelines == UNION {[1..n -> Commands] : n \in 0..MaxCmds}

\* self.finished.emit(ok, message): the message names the command and its
\* exit code, is "Done", or is the text of an exception (cmd 0)
Finished(ok, cmd, rc, text) == [ok |-> ok, cmd |-> cmd, rc |-> rc, text |-> text]

\* the except branch: error and finished(False, str(exc)) are emitted
Raised(r) ==
    [r EXCEPT !.errors = r.errors + 1,
              !.finished = Append(r.finished, Finished(FALSE, 0, 0, "exception")),
              !.active = FALSE, !.returned = TRUE]

\* subprocess.Popen(cmd, ...) for the next command of the list
Popen(r) ==
    LET i == Len(r.started) + 1
    IN  IF r.cmds[i].starts
        THEN [r EXCEPT !.started = Append(r.started, i), !.running = i]
        ELSE Raised(r)

\* a worker that goes on to the next command whatever the exit code
AfterWait_KeepGoing(r, rc) ==
    [r EXCEPT !.codes = Append(r.codes, rc), !.running = 0]

\* rc = proc.wait() and the test of rc
AfterWait(r, rc) ==
    IF rc # 0
    THEN [r EXCEPT !.codes = Append(r.codes, rc), !.running = 0,
                   !.finished = Append(r.finished, Finished(FALSE, r.running, rc, "failed")),
                   !.active = FALSE, !.returned = TRUE]
    ELSE [r EXCEPT !.codes = Append(r.codes, rc), !.running = 0]

\* the thread starts and calls run on a worker made for a pipeline
RunBegins(cmds) ==
    /\ ~run.active
    /\ ~run.returned
    /\ run' = [NoRun EXCEPT !.active = TRUE, !.cmds = cmds]
    /\ UNCHANGED varsNotRun

\* the loop takes the next command and starts it
StartCommand ==
    /\ run.active
    /\ run.running = 0
    /\ Len(run.started) < Len(run.cmds)
    /\ run' = Popen(run)
    /\ UNCHANGED varsNotRun

\* the output of the running command is read to its end and the command is
\* waited for, or reading it raises
CommandEnds ==
    /\ run.active
    /\ run.running # 0
    /\ run' = IF run.cmds[run.running].readable
              THEN AfterWait(run, run.cmds[run.running].rc)
              ELSE Raised([run EXCEPT !.running = 0])
    /\ UNCHANGED varsNotRun

\* the list is exhausted: finished(True, "Done")
RunEnds ==
    /\ run.active
    /\ run.running = 0
    /\ Len(run.started) = Len(run.cmds)
    /\ run' = [run EXCEPT !.finished = Append(run.finished, Finished(TRUE, 0, 0, "Done")),
                          !.active = FALSE, !.returned = TRUE]
    /\ UNCHANGED varsNotRun

\* the worker is deleted
WorkerDeleted ==
    /\ run.returned
    /\ run' = NoRun
    /\ UNCHANGED varsNotRun

InitRun ==
    /\ InitPathVars
    /\ InitLibVars
    /\ InitExeVars
    /\ InitAppVars

NextRun ==
    \/ \E cmds \in Pipelines : RunBegins(cmds)
    \/ StartCommand
    \/ CommandEnds
    \/ RunEnds
    \/ WorkerDeleted

SpecRun == InitRun /\ [][NextRun]_vars

\* C23: the commands are started in list order, each one after the one
\* before it has exited with 0; at the first command that exits non-zero
\* nothing more is started and finished(False) names that command and its
\* exit code; finished(True) is emitted only after every command exited
\* with 0.
C23_InOrderStopAtFirstFailure ==
    /\ \A j \in DOMAIN run.started : run.started[j] = j
    /\ \A j \in DOMAIN run.started :
          j > 1 => (Len(run.codes) >= j - 1 /\ run.codes[j - 1] = 0)
    /\ \A j \in DOMAIN run.codes :
          run.codes[j] # 0 =>
              /\ Len(run.started) = j
              /\ run.returned
              /\ run.finished = <<Finished(FALSE, j, run.cmds[j].rc, "failed")>>
    /\ \A k \in DOMAIN run.finished :
          run.finished[k].ok =>
              /\ Len(run.codes) = Len(run.cmds)
              /\ \A j \in DOMAIN run.codes : run.codes[j] = 0

\* a pipeline of three commands whose second exits with 2: the third was
\* never started
C23_Witness ==
    /\ run.returned
    /\ Len(run.cmds) = 3
    /\ run.started = <<1, 2>>
    /\ run.codes = <<0, 2>>
    /\ run.finished = <<Finished(FALSE, 2, 2, "failed")>>

\* the value is written with backslashes only
NoSlash(v) == \A i \in DOMAIN v : v[i] # SL

\* C25: for a value <letter>:\... written with single or doubled
\* backslashes, the path windows_path_to_unix returns lies under
\* prefix/drive_<lowercased letter>: it is absolute and its first components
\* are those of the prefix followed by the drive directory.
C25_UnderDriveDirectory ==
    (converted # NoPath /\ IsDriveRooted(value) /\ NoSlash(value)) =>
        /\ converted.root = Prefix.root
        /\ Len(converted.parts) >= Len(Prefix.parts) + 1
        /\ SubSeq(converted.parts, 1, Len(Prefix.parts)) = Prefix.parts
        /\ converted.parts[Len(Prefix.parts) + 1]
              = <<"d","r","i","v","e","_">> \o <<LowerChar(value[1])>>

\* the candidate logs of the title have pairwise distinct modification times
DistinctTimes == \A a \in LogPool : \A b \in LogPool : a # b => logs[a] # logs[b]

\* C26: with a launch time recorded and candidates of pairwise distinct
\* modification times, _latest_dxvk_log_for_game returns the file it returns
\* when no launch time is recorded, the most recently modified candidate:
\* the filter on T - 5 changes nothing in what is selected.
C26_FilterChangesNothing ==
    (logFound.called /\ TheGame.appid \in DOMAIN launchTs /\ DistinctTimes) =>
        /\ \A ord \in LogOrders :
              logFound.path = LatestDxvkLog(TheGame, logsDir, logs, NoLaunches, ord)
        /\ LogPool # {} => NewestOf(LogPool, logFound.path)

\* the filter lets one candidate through and holds one back, and the
\* result is the newest of all
C26_Witness ==
    /\ logFound.called
    /\ TheGame.appid \in DOMAIN launchTs
    /\ DistinctTimes
    /\ RecentPool # {}
    /\ LogPool \ RecentPool # {}
    /\ NewestOf(LogPool, logFound.path)

-----------------------------------------------------------------------------
(* The exit of a title process: _on_game_finished runs in the UI thread     *)
(* when the process the launch started has exited, after whatever the user  *)
(* did with the list of titles in between.                                  *)

\* the user clicks a title of the list
SelectTitle(g) ==
    /\ ~shutdown.closed
    /\ selection # g
    /\ selection' = g
    /\ UNCHANGED <<run, launched, shown, varsScan, varsExe, varsPatch, varsLog,
                   varsWorker, varsProc>>

\* MainWindow.scan_games: games_list.clear() leaves no current item
RescanCatalog ==
    /\ ~shutdown.closed
    /\ selection # NoGame
    /\ selection' = NoGame
    /\ UNCHANGED <<run, launched, shown, varsScan, varsExe, varsPatch, varsLog,
                   varsWorker, varsProc>>

\* the launch button, for the title that is selected
LaunchSelection ==
    \E wine \in BOOLEAN : \E ord \in EnumOrders : \E ds \in 1..MaxSize :
        LaunchGame(selection, wine, ord, ds)

\* a title writes its d3d11 log while it runs
TitleWritesLog(n, t) ==
    /\ \E p \in ProcIds : procs[p].kind = "game" /\ procs[p].state = "Running"
    /\ WriteLog(n, t)

\* the host process exits
HostEnded(p) ==
    /\ procs[p].kind = "steam"
    /\ ProcEnded(p)

\* show_dxvk_log_for_selected_game, as called for the selection sel: the
\* log it displays and the warning it shows
ShowDxvkLog(sel, ord) ==
    LET path == LatestDxvkLog(sel, logsDir, logs, launchTs, ord)
    IN  IF sel = NoGame THEN [dxvk |-> NoLog, warning |-> "Select a game first."]
        ELSE IF path = NoLog THEN [dxvk |-> NoLog, warning |-> "No DXVK d3d11 log found"]
        ELSE [dxvk |-> path, warning |-> ""]

\* _on_game_finished of the launch of game, run when sel is selected
OnGameFinished(game, sel, ord) ==
    LET dxvk == ShowDxvkLog(sel, ord)
    IN  [by |-> game, dxvkOf |-> sel, dxvk |-> dxvk.dxvk,
         wine |-> IF game.appid \in DOMAIN wineLog THEN wineLog[game.appid] ELSE NoLog,
         warning |-> dxvk.warning]

\* the title process exits and QProcess.finished calls _on_game_finished
GameFinished(p) ==
    /\ ~shutdown.closed
    /\ procs[p].kind = "game"
    /\ procs[p].state = "Running"
    /\ procs' = [procs EXCEPT ![p].state = "NotRunning"]
    /\ launch' = NoLaunch
    /\ \E ord \in LogOrders : shown' = OnGameFinished(launched[p].game, selection, ord)
    /\ UNCHANGED <<steamProcess, gameProcess, wineLog, shutdown, run, launched, selection,
                   varsWorker, varsScan, varsExe, varsPatch, varsLog>>

\* the install tree the title of this scenario comes with
FinishTree == TreeWith(ExePath(<<>>, <<"F","o","o",".","e","x","e">>), File(1))

\* the logs written in this scenario: the title's own and the other title's
FinishLogs == {LogNames[1], LogNames[3]}

InitFinish ==
    /\ InitPathVars
    /\ InitLibVars
    /\ InitExeVars
    /\ InitAppVars

NextFinish ==
    \/ InstallTitle(FinishTree)
    \/ \E g \in Catalog : SelectTitle(g)
    \/ RescanCatalog
    \/ LaunchSteam
    \/ LaunchSelection
    \/ \E p \in ProcIds : ProcStarted(p)
    \/ \E p \in ProcIds : HostEnded(p)
    \/ \E n \in FinishLogs : \E t \in {MaxTime - 1, MaxTime} : TitleWritesLog(n, t)
    \/ \E p \in ProcIds : GameFinished(p)

SpecFinish == InitFinish /\ [][NextFinish]_vars

\* the d3d11 logs a title's name patterns match
LogOfTitle(g, n) == \E i \in DOMAIN LogPatterns(g) : Matches(n, LogPatterns(g)[i])

\* C27: what _on_game_finished displays is the log of the title that was
\* launched: the lookup is made for that title, whatever is selected when
\* the process exits, and a log of that title that is there is displayed.
C27_LogOfLaunchedTitle ==
    shown # NoShown =>
        /\ shown.dxvkOf = shown.by
        /\ (\E n \in Range(LogNames) : logs[n] # 0 /\ LogOfTitle(shown.by, n))
              => (shown.dxvk # NoLog /\ LogOfTitle(shown.by, shown.dxvk))

-----------------------------------------------------------------------------
(* The pipeline and its thread under fair scheduling: a command that was    *)
(* started ends, an event posted to the UI thread is handled, a thread told *)
(* to quit leaves its event loop.                                           *)

FairWorker ==
    /\ WF_vars(HandleRunCommands)
    /\ WF_vars(\E t \in ThreadIds, ok \in BOOLEAN : WorkerFinished(t, ok))
    /\ WF_vars(HandleOnWorkerFinished)
    /\ WF_vars(HandleQuit)
    /\ WF_vars(\E t \in ThreadIds : ThreadFinish(t))
    /\ WF_vars(\E t \in ThreadIds : ThreadStop(t))
    /\ WF_vars(HandleCleanup)
    /\ WF_vars(HandleDeleteLater)

SpecWorkerFair == InitWorker /\ [][NextWorker]_vars /\ FairWorker

\* no thread of the program is running
SlotFree == \A t \in ThreadIds : ~IsRunning(threads[t])

\* C30: a pipeline that was started ends and its thread stops (unless the
\* window is closed first); no run_commands call fails on the handle of a
\* thread that is gone; and a call handled when no thread is running is
\* accepted: it starts a pipeline.
C30_SlotReleased ==
    /\ \A t \in ThreadIds :
          (threads[t] = "running") ~> (shutdown.closed \/ ~IsRunning(threads[t]))
    /\ [](runResult # "raised")
    /\ [][(NextEvent("run_commands") /\ mainQueue' = Tail(mainQueue) /\ SlotFree)
             => runResult' = "started"]_vars

=============================================================================
